---------------------------- MODULE Spec2Model ----------------------------
(***************************************************************************)
(* Model of the Iron Manus guardrail hooks (scripts/iron-manus):           *)
(*   - SimpleRateLimiter (api-validator.py): the token bucket kept in the  *)
(*     process-wide map api_states;                                        *)
(*   - validate_url (security-validator.py): the SSRF guard.               *)
(***************************************************************************)
EXTENDS Integers, Sequences, FiniteSets, TLC

(***************************************************************************)
(* Bounds of the model.                                                    *)
(***************************************************************************)
\* time.time() in milliseconds is drawn from 0..MaxTime
MaxTime == 3
\* max_requests is drawn from -1..MaxQuota
MaxQuota == 2
\* time_window_ms is drawn from {-1} \cup 1..MaxWindow
MaxWindow == 2

Keys == {"a"}
Times == 0..MaxTime
\* zero and negative quotas are inputs the signature (max_requests: int) admits
Quotas == (0 - 1)..MaxQuota
\* time_window_ms = 0 raises ZeroDivisionError at line 38 and is left out
Windows == {0 - 1} \cup 1..MaxWindow

VARIABLES
    api_states,   \* SimpleRateLimiter.api_states: key -> {tokens, last_refill, request_count}
    last,         \* the most recent can_make_request call: its arguments, the clock it read, its result
    snapshot,     \* the dict most recently returned by get_rate_limit_status, until the next call
    hist,         \* per key, the history of its calls: the quota last passed, and the run of
                  \* calls since the key was created
    \* threads of a multi-threaded host calling can_make_request on one key
    clock,        \* time.time() in milliseconds
    budget,       \* calls the threads may still start
    pc,           \* per thread, the line of can_make_request it is about to run
    loc,          \* per thread, its locals: now, state (a reference), tokens_to_add, and
                  \* the operand it loaded for an augmented assignment
    heap,         \* the dicts created at lines 28-32, by the thread that created them
    slot,         \* api_states[key]: the dict stored under the key, 0 when absent
    grants        \* calls that returned True since the key's dict was created or refilled

VARIABLES
    \* one call of validate_url
    url,            \* the url argument, a string as the tuple of its characters
    allowed_hosts,  \* the allowed_hosts argument, a list of strings
    url_pc,         \* "start" before the call, "done" after it
    verdict         \* the value validate_url returned

VARIABLES
    \* one call of validate_bash_command
    command,        \* the command argument, a string as the tuple of its characters
    bash_pc,        \* "start" before the call, "done" after it
    violations      \* the list validate_bash_command returned

VARIABLES
    \* one MultiAPIFetch tool call, seen by the two PreToolUse hooks: api-validator.py
    \* (its own process, with its own rate_limiter) and security-validator.py
    api_endpoints,    \* tool_input['api_endpoints'], a list of urls
    env_hosts,        \* os.environ['ALLOWED_HOSTS']
    now_ms,           \* time.time() in milliseconds, as the api-validator process reads it
    rate_i,           \* validate_rate_limits: the index of the url the loop is at
    rate_log,         \* per url the loop has handled: the key it used and what
                      \* can_make_request returned
    rate_violations,  \* validate_rate_limits: violations
    rate_exit,        \* the exit code of api-validator.py, Running before it exits
    ssrf_i,           \* validate_api_urls: the index of the url the loop is at
    ssrf_violations,  \* validate_api_urls: violations
    ssrf_exit         \* the exit code of security-validator.py, Running before it exits

VARIABLES
    \* one run of python-code-validator.py
    code,          \* the source read from stdin
    ast_version,   \* which classes the ast module of the interpreter gives literals
    tree,          \* the tree ast.parse returned, <<>> before it
    pending,       \* the nodes whose validate_node call is due, the next one first
    visited,       \* the nodes validate_node was called on, in the order of the calls
    raised,        \* the exception main caught, NoException when none
    code_pc,       \* "parse", "validate", "except" or "done"
    code_exit      \* the exit code, Running before the process exits

VARIABLES
    key_limits     \* per key, the max_requests and time_window_ms its caller passes

seqVars == <<api_states, last, snapshot, hist>>
concVars == <<clock, budget, pc, loc, heap, slot, grants>>
urlVars == <<url, allowed_hosts, url_pc, verdict>>
bashVars == <<command, bash_pc, violations>>
batchVars == <<api_endpoints, env_hosts, now_ms, rate_i, rate_log, rate_violations, rate_exit,
               ssrf_i, ssrf_violations, ssrf_exit>>
astVars == <<code, ast_version, tree, pending, visited, raised, code_pc, code_exit>>
limitVars == <<key_limits>>
vars == <<api_states, last, snapshot, hist, clock, budget, pc, loc, heap, slot, grants,
          url, allowed_hosts, url_pc, verdict, command, bash_pc, violations,
          api_endpoints, env_hosts, now_ms, rate_i, rate_log, rate_violations, rate_exit,
          ssrf_i, ssrf_violations, ssrf_exit,
          code, ast_version, tree, pending, visited, raised, code_pc, code_exit, key_limits>>
notSeqVars == <<concVars, urlVars, bashVars, batchVars, astVars, limitVars>>
notConcVars == <<seqVars, urlVars, bashVars, batchVars, astVars, limitVars>>
notUrlVars == <<seqVars, concVars, bashVars, batchVars, astVars, limitVars>>
notBashVars == <<seqVars, concVars, urlVars, batchVars, astVars, limitVars>>
\* the batch changes api_states and leaves the rest alone
notBatchVars == <<last, snapshot, hist, concVars, urlVars, bashVars, astVars, limitVars>>
notAstVars == <<seqVars, concVars, urlVars, bashVars, batchVars, limitVars>>

\* the run counter of hist stops counting here, above every quota
MaxRun == MaxQuota + 2

Min(a, b) == IF a < b THEN a ELSE b

\* Python's // : floor division, for either sign of the divisor
FloorDiv(a, b) == IF b > 0 THEN a \div b ELSE (0 - a) \div (0 - b)

\* Put on a map that keeps one value for all its keys
PutShared(m, k, v) == [x \in (DOMAIN m) \cup {k} |-> v]

\* dict item assignment  m[k] = v
Put(m, k, v) == [x \in (DOMAIN m) \cup {k} |-> IF x = k THEN v ELSE m[x]]

(***************************************************************************)
(* SimpleRateLimiter.can_make_request                                      *)
(***************************************************************************)
\* lines 27-32: the entry created on first use of a key
NewState(max_requests, now) ==
    [tokens |-> max_requests, last_refill |-> now, request_count |-> 0]

\* line 34, after lines 27-32
StateOf(states, api_name, max_requests, now) ==
    IF api_name \in DOMAIN states THEN states[api_name] ELSE NewState(max_requests, now)

\* lines 37-38
TokensToAdd(state, max_requests, time_window_ms, now) ==
    FloorDiv(now - state.last_refill, time_window_ms) * max_requests

\* line 40
RefillDue(state, max_requests, time_window_ms, now) ==
    TokensToAdd(state, max_requests, time_window_ms, now) > 0

\* Refill without the cap at the quota
RefillUncapped(state, max_requests, time_window_ms, now) ==
    IF TokensToAdd(state, max_requests, time_window_ms, now) > 0
    THEN [tokens |-> state.tokens + TokensToAdd(state, max_requests, time_window_ms, now),
          last_refill |-> now,
          request_count |-> 0]
    ELSE state

\* lines 40-43
Refill(state, max_requests, time_window_ms, now) ==
    IF RefillDue(state, max_requests, time_window_ms, now)
    THEN [tokens |-> Min(max_requests,
                         state.tokens + TokensToAdd(state, max_requests, time_window_ms, now)),
          last_refill |-> now,
          request_count |-> 0]
    ELSE state

\* CanConsume with the test off by one
CanConsumeAtZero(state) == state.tokens >= 0

\* line 46
CanConsume(state) == state.tokens > 0

\* Consume without the count of the request
ConsumeUncounted(state) ==
    IF CanConsume(state)
    THEN [state EXCEPT !.tokens = @ - 1]
    ELSE state

\* lines 46-51
Consume(state) ==
    IF CanConsume(state)
    THEN [state EXCEPT !.tokens = @ - 1, !.request_count = @ + 1]
    ELSE state

NoCall ==
    [op |-> "none", key |-> "a", max_requests |-> 0, time_window_ms |-> 1, now |-> 0,
     existed |-> FALSE, refilled |-> FALSE, mid |-> NewState(0, 0), ret |-> FALSE]

NoSnapshot ==
    [ref |-> "none", key |-> "a",
     val |-> [tokens |-> 0, request_count |-> 0, last_refill |-> 0]]

\* the history of a key whose calls are no run of one quota and one window
VoidRun(max_requests) ==
    [status |-> "void", quota |-> max_requests, time_window_ms |-> 1, first |-> 0,
     calls |-> 0, allowed |-> 0, ret |-> FALSE]

\* the history of a key after a call (lines 23-51 seen from the caller): a run
\* opens when the call creates the key (line 27) with a positive quota and
\* window, stays "open" while the same quota and window are passed at clock
\* values less than one window after the first, is "left" by the first call
\* of the same quota and window at least one window after the first, and is
\* "void" otherwise
HistAfter(h, existed, max_requests, time_window_ms, now, ret) ==
    IF ~existed
    THEN IF max_requests > 0 /\ time_window_ms > 0
         THEN [status |-> "open", quota |-> max_requests,
               time_window_ms |-> time_window_ms, first |-> now,
               calls |-> 1, allowed |-> IF ret THEN 1 ELSE 0, ret |-> ret]
         ELSE VoidRun(max_requests)
    ELSE IF h.status = "open" /\ h.quota = max_requests
                              /\ h.time_window_ms = time_window_ms
         THEN IF now - h.first < time_window_ms
              THEN [h EXCEPT !.calls = Min(@ + 1, MaxRun),
                             !.allowed = IF ret THEN @ + 1 ELSE @,
                             !.ret = ret]
              ELSE [h EXCEPT !.status = "left", !.ret = ret]
         ELSE VoidRun(max_requests)

\* lines 23-51, now being the clock read at line 25
can_make_request(api_name, max_requests, time_window_ms, now) ==
    LET state == StateOf(api_states, api_name, max_requests, now)
        mid   == Refill(state, max_requests, time_window_ms, now)
    IN  /\ api_states' = Put(api_states, api_name, Consume(mid))
        /\ last' = [op |-> "call", key |-> api_name, max_requests |-> max_requests,
                    time_window_ms |-> time_window_ms, now |-> now,
                    existed |-> api_name \in DOMAIN api_states,
                    refilled |-> RefillDue(state, max_requests, time_window_ms, now),
                    mid |-> mid, ret |-> CanConsume(mid)]
        /\ snapshot' = NoSnapshot
        /\ hist' = [hist EXCEPT ![api_name] =
                        HistAfter(@, api_name \in DOMAIN api_states,
                                  max_requests, time_window_ms, now, CanConsume(mid))]
        /\ UNCHANGED notSeqVars

(***************************************************************************)
(* SimpleRateLimiter.get_rate_limit_status                                 *)
(***************************************************************************)
\* StatusOf without the copy: the stored dict itself is returned
StatusOfNoCopy(states, api_name) ==
    IF api_name \notin DOMAIN states
    THEN [ref |-> "copy", key |-> api_name,
          val |-> [tokens |-> 0, request_count |-> 0, last_refill |-> 0]]
    ELSE [ref |-> api_name, key |-> api_name, val |-> states[api_name]]

\* lines 55-58: the returned dict; ref tells which object it is: "copy" is a
\* dict of its own, a key is the dict stored under that key
StatusOf(states, api_name) ==
    IF api_name \notin DOMAIN states
    THEN [ref |-> "copy", key |-> api_name,
          val |-> [tokens |-> 0, request_count |-> 0, last_refill |-> 0]]
    ELSE [ref |-> "copy", key |-> api_name, val |-> states[api_name]]

get_rate_limit_status(api_name) ==
    /\ snapshot' = StatusOf(api_states, api_name)
    /\ last' = [last EXCEPT !.op = "status"]
    /\ UNCHANGED <<api_states, hist>>
    /\ UNCHANGED notSeqVars

\* a value no item of a stored state holds
Scribble == MaxQuota + MaxTime + 1

\* the caller assigns to an item of the dict it was handed
ModifySnapshot(field, v) ==
    /\ snapshot.ref # "none"
    /\ snapshot' = [snapshot EXCEPT !.val[field] = v]
    /\ api_states' = IF snapshot.ref \in DOMAIN api_states
                     THEN [api_states EXCEPT ![snapshot.ref][field] = v]
                     ELSE api_states
    /\ last' = [last EXCEPT !.op = "modify"]
    /\ UNCHANGED hist
    /\ UNCHANGED notSeqVars

(***************************************************************************)
(* A host that keeps one quota and one window per key, as                  *)
(* validate_rate_limits does for a url: every call on a key passes the     *)
(* key's limits, at any reading of the clock.                              *)
(***************************************************************************)
BucketKeys == {"a", "b"}

\* the clock readings of the calls are drawn from 0..MaxBucketTime
MaxBucketTime == 2

BucketTimes == 0..MaxBucketTime

Limits ==
    {[max_requests |-> m, time_window_ms |-> w] : m \in 1..MaxQuota, w \in 1..MaxWindow}

BucketsInit ==
    /\ key_limits \in [BucketKeys -> Limits]
    /\ api_states = [k \in {} |-> NewState(0, 0)]
    /\ last = NoCall
    /\ snapshot = NoSnapshot
    /\ hist = [k \in BucketKeys |-> VoidRun(0)]

\* line 113: the call with the limits of the key
LimitedCall(api_name, now) ==
    can_make_request(api_name, key_limits[api_name].max_requests,
                     key_limits[api_name].time_window_ms, now)

BucketsNext == \E k \in BucketKeys, t \in BucketTimes : LimitedCall(k, t)

NoLimits == key_limits = [k \in {} |-> 0]

(***************************************************************************)
(* validate_url (security-validator.py).  Strings are tuples of            *)
(* one-character strings.                                                  *)
(***************************************************************************)
UpperAlpha == <<"A", "B", "C", "D", "E", "F", "G", "H", "I", "J", "K", "L", "M", "N", "O", "P", "Q", "R", "S", "T", "U", "V", "W", "X", "Y", "Z">>
LowerAlpha == <<"a", "b", "c", "d", "e", "f", "g", "h", "i", "j", "k", "l", "m", "n", "o", "p", "q", "r", "s", "t", "u", "v", "w", "x", "y", "z">>
Digits == <<"0", "1", "2", "3", "4", "5", "6", "7", "8", "9">>
HexDigits == <<"0", "1", "2", "3", "4", "5", "6", "7", "8", "9", "a", "b", "c", "d", "e", "f">>

Range(q) == {q[i] : i \in 1..Len(q)}

IndexIn(q, c) == CHOOSE i \in 1..Len(q) : q[i] = c

\* str.lower() on one character
LowerChar(c) == IF c \in Range(UpperAlpha) THEN LowerAlpha[IndexIn(UpperAlpha, c)] ELSE c

\* str.lower()
ToLower(str) == [i \in 1..Len(str) |-> LowerChar(str[i])]

\* str.find(c) + 1: the first position of c, 0 when absent
Find(str, c) ==
    IF \E i \in 1..Len(str) : str[i] = c
    THEN CHOOSE i \in 1..Len(str) : str[i] = c /\ \A j \in 1..(i - 1) : str[j] # c
    ELSE 0

\* str.rfind(c) + 1
RFind(str, c) ==
    IF \E i \in 1..Len(str) : str[i] = c
    THEN CHOOSE i \in 1..Len(str) : str[i] = c /\ \A j \in (i + 1)..Len(str) : str[j] # c
    ELSE 0

\* str.startswith(prefix)
StartsWith(str, prefix) ==
    Len(prefix) <= Len(str) /\ SubSeq(str, 1, Len(prefix)) = prefix

\* str.endswith(suffix)
EndsWith(str, suffix) ==
    Len(suffix) <= Len(str) /\ SubSeq(str, Len(str) - Len(suffix) + 1, Len(str)) = suffix

\* str.split(c)
RECURSIVE Split(_, _)
Split(str, c) ==
    IF Find(str, c) = 0
    THEN <<str>>
    ELSE <<SubSeq(str, 1, Find(str, c) - 1)>> \o Split(SubSeq(str, Find(str, c) + 1, Len(str)), c)

\* int(str) for a string of decimal digits
RECURSIVE DecValue(_)
DecValue(str) ==
    IF str = <<>> THEN 0
    ELSE 10 * DecValue(SubSeq(str, 1, Len(str) - 1)) + (IndexIn(Digits, str[Len(str)]) - 1)

\* int(str, 16) for a string of hexadecimal digits
RECURSIVE HexValue(_)
HexValue(str) ==
    IF str = <<>> THEN 0
    ELSE 16 * HexValue(SubSeq(str, 1, Len(str) - 1))
         + (IndexIn(HexDigits, LowerChar(str[Len(str)])) - 1)

(***************************************************************************)
(* urllib.parse.urlparse, as far as validate_url reads its result: the     *)
(* scheme, the netloc, the ValueError for unbalanced brackets, and the     *)
(* hostname property.  Urls hold no whitespace, control character or '%',  *)
(* and every balanced bracketed host is an IPv6 address.                   *)
(***************************************************************************)
SchemeChars == Range(UpperAlpha) \cup Range(LowerAlpha) \cup Range(Digits) \cup {"+", "-", "."}

HasScheme(str) ==
    /\ Find(str, ":") > 1
    /\ str[1] \in Range(UpperAlpha) \cup Range(LowerAlpha)
    /\ \A i \in 1..(Find(str, ":") - 1) : str[i] \in SchemeChars

\* parsed.scheme: lower-cased
UrlScheme(str) ==
    IF HasScheme(str) THEN ToLower(SubSeq(str, 1, Find(str, ":") - 1)) ELSE <<>>

AfterScheme(str) ==
    IF HasScheme(str) THEN SubSeq(str, Find(str, ":") + 1, Len(str)) ELSE str

\* parsed.netloc: what follows '//' up to the first of '/', '?', '#'
UrlNetloc(str) ==
    LET rest == AfterScheme(str)
        ends == {i \in 3..Len(rest) : rest[i] \in {"/", "?", "#"}}
        stop == IF ends = {} THEN Len(rest) + 1
                ELSE CHOOSE i \in ends : \A j \in ends : i <= j
    IN  IF StartsWith(rest, <<"/", "/">>) THEN SubSeq(rest, 3, stop - 1) ELSE <<>>

\* urlsplit raises ValueError("Invalid IPv6 URL")
UrlParseRaises(str) ==
    LET netloc == UrlNetloc(str)
    IN  ("[" \in Range(netloc)) # ("]" \in Range(netloc))

\* parsed.hostname: lower-cased, <<>> standing for None
UrlHostname(str) ==
    LET netloc   == UrlNetloc(str)
        hostinfo == SubSeq(netloc, RFind(netloc, "@") + 1, Len(netloc))
        open     == Find(hostinfo, "[")
        inside   == SubSeq(hostinfo, open + 1, Len(hostinfo))
        host     == IF open > 0
                    THEN IF Find(inside, "]") > 0
                         THEN SubSeq(inside, 1, Find(inside, "]") - 1)
                         ELSE inside
                    ELSE IF Find(hostinfo, ":") > 0
                         THEN SubSeq(hostinfo, 1, Find(hostinfo, ":") - 1)
                         ELSE hostinfo
    IN  ToLower(host)

(***************************************************************************)
(* ipaddress.ip_address: the address a string parses to.                   *)
(***************************************************************************)
NotAnAddress == [version |-> 0, words |-> <<>>]

\* one octet of a dotted quad: 1 to 3 decimal digits, no leading zero, <= 255
IsOctet(str) ==
    /\ Len(str) \in 1..3
    /\ \A i \in 1..Len(str) : str[i] \in Range(Digits)
    /\ (Len(str) > 1 => str[1] # "0")
    /\ DecValue(str) <= 255

IsIPv4(str) ==
    LET parts == Split(str, ".")
    IN  Len(parts) = 4 /\ \A i \in 1..4 : IsOctet(parts[i])

\* one group of an IPv6 address: 1 to 4 hexadecimal digits
IsHextet(str) ==
    /\ Len(str) \in 1..4
    /\ \A i \in 1..Len(str) : LowerChar(str[i]) \in Range(HexDigits)

\* the groups of an IPv6 address written without an IPv4 suffix: at most one
\* '::', which stands for the missing groups; <<>> when str is no such address
IPv6Groups(str) ==
    LET parts  == Split(str, ":")
        n      == Len(parts)
        skips  == {i \in 2..(n - 1) : parts[i] = <<>>}
        skip   == CHOOSE i \in skips : TRUE
        hi     == IF parts[1] = <<>> THEN skip - 2 ELSE skip - 1
        lo     == IF parts[n] = <<>> THEN n - skip - 1 ELSE n - skip
        zeros  == 8 - (hi + lo)
    IN  IF n < 3 \/ n > 9 \/ Cardinality(skips) > 1 THEN <<>>
        ELSE IF skips = {}
        THEN IF n = 8 /\ \A i \in 1..8 : IsHextet(parts[i])
             THEN [i \in 1..8 |-> HexValue(parts[i])]
             ELSE <<>>
        ELSE IF /\ (parts[1] = <<>> => hi = 0)
                /\ (parts[n] = <<>> => lo = 0)
                /\ zeros >= 1
                /\ \A i \in 1..hi : IsHextet(parts[i])
                /\ \A i \in (n - lo + 1)..n : IsHextet(parts[i])
             THEN [i \in 1..8 |-> IF i <= hi THEN HexValue(parts[i])
                                  ELSE IF i <= hi + zeros THEN 0
                                  ELSE HexValue(parts[n - 8 + i])]
             ELSE <<>>

ip_address(str) ==
    IF IsIPv4(str)
    THEN [version |-> 4, words |-> [i \in 1..4 |-> DecValue(Split(str, ".")[i])]]
    ELSE IF IPv6Groups(str) # <<>>
    THEN [version |-> 6, words |-> IPv6Groups(str)]
    ELSE NotAnAddress

\* lines 34-41: each network as its IPv4 prefix, the second octet as a range
PRIVATE_IP_RANGES ==
    << [first |-> 10,  second |-> 0..255],
       [first |-> 172, second |-> 16..31],
       [first |-> 192, second |-> {168}],
       [first |-> 127, second |-> 0..255],
       [first |-> 169, second |-> {254}],
       [first |-> 0,   second |-> 0..255] >>

\* ip in network: False for an address of another version than the network's
InNetwork(ip, network) ==
    /\ ip.version = 4
    /\ ip.words[1] = network.first
    /\ ip.words[2] \in network.second

\* lines 46-52
is_private_ip(hostname) ==
    /\ ip_address(hostname) # NotAnAddress
    /\ \E i \in 1..Len(PRIVATE_IP_RANGES) : InNetwork(ip_address(hostname), PRIVATE_IP_RANGES[i])

\* line 44
LOCALHOST_VARIANTS ==
    { <<"l", "o", "c", "a", "l", "h", "o", "s", "t">>,
      <<"0", ".", "0", ".", "0", ".", "0">>,
      <<"1", "2", "7", ".", "0", ".", "0", ".", "1">>,
      <<":", ":", "1">>,
      <<":", ":">> }

\* lines 54-56
is_localhost(hostname) == ToLower(hostname) \in LOCALHOST_VARIANTS

\* HostMatches with the suffix test lacking the separating dot
HostMatchesNoDot(hostname, allowed_host) ==
    IF StartsWith(allowed_host, <<"*", ".">>)
    THEN LET domain == SubSeq(allowed_host, 3, Len(allowed_host))
         IN  hostname = domain \/ EndsWith(hostname, domain)
    ELSE hostname = allowed_host

\* lines 85-94: one allowed host against the hostname
HostMatches(hostname, allowed_host) ==
    IF StartsWith(allowed_host, <<"*", ".">>)
    THEN LET domain == SubSeq(allowed_host, 3, Len(allowed_host))
         IN  hostname = domain \/ EndsWith(hostname, <<".">> \o domain)
    ELSE hostname = allowed_host

\* lines 83-98
HostAllowed(hostname, allowed) ==
    IF allowed # <<>>
    THEN \E i \in 1..Len(allowed) : HostMatches(hostname, allowed[i])
    ELSE TRUE

\* lines 63-101
validate_url(str, allowed) ==
    IF UrlParseRaises(str) THEN FALSE
    ELSE IF UrlScheme(str) \notin {<<"h", "t", "t", "p">>, <<"h", "t", "t", "p", "s">>} THEN FALSE
    ELSE IF UrlHostname(str) = <<>> THEN FALSE
    ELSE IF is_private_ip(UrlHostname(str)) THEN FALSE
    ELSE IF is_localhost(UrlHostname(str)) THEN FALSE
    ELSE HostAllowed(UrlHostname(str), allowed)

(***************************************************************************)
(* The urls and the allowed-host lists validate_url is called with.        *)
(***************************************************************************)
\* the longest allowed_hosts list
MaxAllowed == 2

UrlSchemes ==
    { <<"h", "t", "t", "p", ":", "/", "/">>, <<"h", "t", "t", "p", "s", ":", "/", "/">>, <<"H", "T", "T", "P", ":", "/", "/">>, <<"f", "t", "p", ":", "/", "/">>, <<>> }

UrlUserinfos == { <<>>, <<"u", "@">> }

UrlHosts ==
    { <<"e", "x", "a", "m", "p", "l", "e", ".", "c", "o", "m">>,
      <<"a", "p", "i", ".", "e", "x", "a", "m", "p", "l", "e", ".", "c", "o", "m">>,
      <<"e", "v", "i", "l", "e", "x", "a", "m", "p", "l", "e", ".", "c", "o", "m">>,
      <<"e", "v", "i", "l", ".", "c", "o", "m">>,
      <<"E", "x", "a", "m", "p", "l", "e", ".", "C", "O", "M">>,
      <<"l", "o", "c", "a", "l", "h", "o", "s", "t">>,
      <<"L", "o", "c", "a", "l", "H", "o", "s", "t">>,
      <<"1", "0", ".", "0", ".", "0", ".", "5">>,
      <<"8", ".", "8", ".", "8", ".", "8">>,
      <<"1", "2", "7", ".", "0", ".", "0", ".", "1">>,
      <<"1", "9", "2", ".", "1", "6", "8", ".", "1", ".", "5">>,
      <<"1", "7", "2", ".", "1", "6", ".", "0", ".", "1">>,
      <<"1", "7", "2", ".", "3", "2", ".", "0", ".", "1">>,
      <<"1", "6", "9", ".", "2", "5", "4", ".", "1", ".", "1">>,
      <<"0", ".", "0", ".", "0", ".", "0">>,
      <<"0", "1", "0", ".", "0", ".", "0", ".", "5">>,
      <<"[", ":", ":", "1", "]">>,
      <<"[", "0", ":", "0", ":", "0", ":", "0", ":", "0", ":", "0", ":", "0", ":", "1", "]">>,
      <<"[", ":", ":", "]">>,
      <<"[", "2", "0", "0", "1", ":", "d", "b", "8", ":", ":", "1", "]">>,
      <<"[", ":", ":", "1">>,
      <<>> }

UrlTails == { <<>>, <<":", "8", "0", "/", "x">>, <<"/", "x">> }

Urls ==
    {sch \o ui \o h \o tl : sch \in UrlSchemes, ui \in UrlUserinfos, h \in UrlHosts, tl \in UrlTails}

HostPatterns ==
    { <<"*", ".", "e", "x", "a", "m", "p", "l", "e", ".", "c", "o", "m">>,
      <<"e", "x", "a", "m", "p", "l", "e", ".", "c", "o", "m">>,
      <<"e", "v", "i", "l", ".", "c", "o", "m">>,
      <<"*", ".", "c", "o", "m">>,
      <<"8", ".", "8", ".", "8", ".", "8">> }

AllowLists == UNION {[1..n -> HostPatterns] : n \in 0..MaxAllowed}

UrlInit ==
    /\ url \in Urls
    /\ allowed_hosts \in AllowLists
    /\ url_pc = "start"
    /\ verdict = FALSE

ValidateUrl ==
    /\ url_pc = "start"
    /\ verdict' = validate_url(url, allowed_hosts)
    /\ url_pc' = "done"
    /\ UNCHANGED <<url, allowed_hosts>>
    /\ UNCHANGED notUrlVars

UrlNext == ValidateUrl

NoUrl ==
    /\ url = <<>>
    /\ allowed_hosts = <<>>
    /\ url_pc = "start"
    /\ verdict = FALSE

(***************************************************************************)
(* validate_bash_command (security-validator.py): re.search of each        *)
(* pattern of DANGEROUS_BASH_PATTERNS in the command, with re.IGNORECASE.  *)
(* A pattern is a sequence of atoms: a word boundary, or a set of          *)
(* characters taken once, one or more times, or any number of times.  The  *)
(* sets are written in lower case and a character is compared in lower     *)
(* case, which is what re.IGNORECASE does on ASCII.                        *)
(***************************************************************************)
\* \s on the characters the commands hold
Whitespace == {" ", "\t", "\n"}

\* \w
WordChars == Range(UpperAlpha) \cup Range(LowerAlpha) \cup Range(Digits) \cup {"_"}

\* the characters of the commands
CommandChars ==
    WordChars \cup Whitespace \cup {"-", "/", ">", "=", ":", "|", "$", "(", ")", ";", "."}

\* . : any character but the newline
NotNewline == CommandChars \ {"\n"}

WordBoundary == << [kind |-> "boundary", chars |-> {}, least |-> 0, most |-> 0] >>

\* x
Once(chars) == << [kind |-> "chars", chars |-> chars, least |-> 1, most |-> 1] >>

\* x+
OneOrMore(chars) == << [kind |-> "chars", chars |-> chars, least |-> 1, most |-> 0 - 1] >>

\* x*
ZeroOrMore(chars) == << [kind |-> "chars", chars |-> chars, least |-> 0, most |-> 0 - 1] >>

\* a literal string
Text(str) == [i \in 1..Len(str) |-> Once({str[i]})[1]]

\* lines 16-31
DANGEROUS_BASH_PATTERNS ==
    << WordBoundary \o Text(<<"r", "m">>) \o OneOrMore(Whitespace) \o Text(<<"-", "r", "f">>) \o WordBoundary,
       WordBoundary \o Text(<<"s", "u", "d", "o">>) \o OneOrMore(Whitespace) \o Text(<<"r", "m">>) \o WordBoundary,
       WordBoundary \o Text(<<"m", "v">>) \o OneOrMore(Whitespace) \o ZeroOrMore(NotNewline) \o OneOrMore(Whitespace) \o Text(<<"/", "d", "e", "v", "/", "n", "u", "l", "l">>) \o WordBoundary,
       WordBoundary \o Text(<<">">>) \o ZeroOrMore(Whitespace) \o Text(<<"/", "d", "e", "v", "/", "s">>) \o OneOrMore(Range(LowerAlpha)) \o WordBoundary,
       WordBoundary \o Text(<<"d", "d">>) \o OneOrMore(Whitespace) \o Text(<<"i", "f", "=">>) \o ZeroOrMore(NotNewline) \o Text(<<"o", "f", "=", "/", "d", "e", "v", "/">>) \o WordBoundary,
       WordBoundary \o Text(<<"f", "o", "r", "m", "a", "t">>) \o OneOrMore(Whitespace) \o Once(Range(LowerAlpha)) \o Text(<<":">>) \o WordBoundary,
       WordBoundary \o Text(<<"d", "e", "l">>) \o OneOrMore(Whitespace) \o Text(<<"/">>) \o Once({"s", "f", "q"}) \o WordBoundary,
       WordBoundary \o Text(<<"c", "h", "m", "o", "d">>) \o OneOrMore(Whitespace) \o Text(<<"7", "7", "7">>) \o WordBoundary,
       WordBoundary \o Text(<<"c", "h", "o", "w", "n">>) \o OneOrMore(Whitespace) \o ZeroOrMore(NotNewline) \o Text(<<":">>) \o ZeroOrMore(NotNewline) \o OneOrMore(Whitespace) \o Text(<<"/">>) \o WordBoundary,
       WordBoundary \o Text(<<"n", "c">>) \o OneOrMore(Whitespace) \o ZeroOrMore(NotNewline) \o Text(<<"-", "e">>) \o WordBoundary,
       WordBoundary \o Text(<<"c", "u", "r", "l">>) \o OneOrMore(Whitespace) \o ZeroOrMore(NotNewline) \o Text(<<"|">>) \o ZeroOrMore(Whitespace) \o Text(<<"s", "h">>) \o WordBoundary,
       WordBoundary \o Text(<<"w", "g", "e", "t">>) \o OneOrMore(Whitespace) \o ZeroOrMore(NotNewline) \o Text(<<"|">>) \o ZeroOrMore(Whitespace) \o Text(<<"s", "h">>) \o WordBoundary,
       WordBoundary \o Text(<<"e", "v", "a", "l">>) \o OneOrMore(Whitespace) \o Text(<<"$", "(">>),
       WordBoundary \o Text(<<"e", "x", "p", "o", "r", "t">>) \o OneOrMore(Whitespace) \o Text(<<"p", "a", "t", "h", "=">>) \o ZeroOrMore(NotNewline) \o Text(<<":">>) \o ZeroOrMore(NotNewline) \o Text(<<"$", "p", "a", "t", "h">>) \o WordBoundary >>

\* \b at position i: exactly one of the characters on its two sides is a word character
AtBoundary(str, i) ==
    (i > 1 /\ str[i - 1] \in WordChars) # (i <= Len(str) /\ str[i] \in WordChars)

\* the length of the longest run of characters of chars that starts at position i
RunLength(chars, str, i) ==
    LET stops == {j \in i..Len(str) : LowerChar(str[j]) \notin chars}
    IN  IF stops = {} THEN Len(str) + 1 - i
        ELSE (CHOOSE j \in stops : \A k \in stops : j <= k) - i

\* the atoms k.. of the pattern match str from position i on
RECURSIVE MatchAt(_, _, _, _)
MatchAt(pattern, k, str, i) ==
    IF k > Len(pattern) THEN TRUE
    ELSE IF pattern[k].kind = "boundary"
    THEN AtBoundary(str, i) /\ MatchAt(pattern, k + 1, str, i)
    ELSE LET run  == RunLength(pattern[k].chars, str, i)
             most == IF pattern[k].most < 0 THEN run ELSE Min(run, pattern[k].most)
         IN  \E n \in pattern[k].least..most : MatchAt(pattern, k + 1, str, i + n)

\* the start positions at which the pattern matches
MatchStarts(pattern, str) == {i \in 1..(Len(str) + 1) : MatchAt(pattern, 1, str, i)}

\* line 109: re.search(pattern, command, re.IGNORECASE) is not None
Search(pattern, str) == MatchStarts(pattern, str) # {}

\* line 110: the violation of rule i; the message holds the pattern
Violation(i) == [kind |-> "bash", rule |-> i]

\* ScanRules appending one violation for every place the pattern matches at
RECURSIVE ScanRulesEveryMatch(_, _)
ScanRulesEveryMatch(str, i) ==
    IF i > Len(DANGEROUS_BASH_PATTERNS) THEN <<>>
    ELSE [n \in 1..Cardinality(MatchStarts(DANGEROUS_BASH_PATTERNS[i], str)) |-> Violation(i)]
         \o ScanRulesEveryMatch(str, i + 1)

\* lines 108-110: the loop over the patterns, from pattern i on
RECURSIVE ScanRules(_, _)
ScanRules(str, i) ==
    IF i > Len(DANGEROUS_BASH_PATTERNS) THEN <<>>
    ELSE (IF Search(DANGEROUS_BASH_PATTERNS[i], str) THEN <<Violation(i)>> ELSE <<>>)
         \o ScanRules(str, i + 1)

\* lines 103-111
validate_bash_command(str) == ScanRules(str, 1)

(***************************************************************************)
(* The commands validate_bash_command is called with: a fragment, or two   *)
(* fragments joined by '; '.                                               *)
(***************************************************************************)
CommandFragments ==
    { <<"r", "m", " ", "-", "r", "f", " ", "/", "t", "m", "p", "/", "x">>,
      <<"s", "u", "d", "o", " ", "r", "m", " ", "x">>,
      <<"m", "v", " ", "a", " ", "/", "d", "e", "v", "/", "n", "u", "l", "l">>,
      <<"x", ">", "/", "d", "e", "v", "/", "s", "d", "a">>,
      <<"e", "c", "h", "o", " ", "x", " ", ">", " ", "/", "d", "e", "v", "/", "s", "d", "a">>,
      <<"d", "d", " ", "i", "f", "=", "a", " ", "o", "f", "=", "/", "d", "e", "v", "/", "s", "d", "a">>,
      <<"f", "o", "r", "m", "a", "t", " ", "C", ":", "x">>,
      <<"f", "o", "r", "m", "a", "t", " ", "C", ":">>,
      <<"d", "e", "l", " ", "/", "S">>,
      <<"c", "h", "m", "o", "d", " ", "7", "7", "7", " ", "f">>,
      <<"c", "h", "o", "w", "n", " ", "a", ":", "b", " ", "/", "x">>,
      <<"n", "c", " ", "h", " ", "-", "e">>,
      <<"c", "u", "r", "l", " ", "u", " ", "|", " ", "s", "h">>,
      <<"w", "g", "e", "t", " ", "u", " ", "|", "s", "h">>,
      <<"e", "v", "a", "l", " ", "$", "(", "x", ")">>,
      <<"e", "x", "p", "o", "r", "t", " ", "P", "A", "T", "H", "=", "a", ":", "$", "P", "A", "T", "H">>,
      <<"e", "c", "h", "o", " ", "h", "i">>,
      <<"R", "M", " ", " ", "-", "R", "F", " ", "x">>,
      <<"s", "u", "d", "o", " ", "r", "m", " ", "-", "r", "f", " ", "/">>,
      <<"c", "u", "r", "l", " ", "u", "\n", "|", " ", "s", "h">>,
      <<"f", "a", "r", "m", " ", "-", "r", "f", " ", "x">>,
      <<>> }

Commands ==
    CommandFragments \cup {a \o <<";", " ">> \o b : a \in CommandFragments, b \in CommandFragments}

BashInit ==
    /\ command \in Commands
    /\ bash_pc = "start"
    /\ violations = <<>>

ValidateBash ==
    /\ bash_pc = "start"
    /\ violations' = validate_bash_command(command)
    /\ bash_pc' = "done"
    /\ UNCHANGED command
    /\ UNCHANGED notBashVars

BashNext == ValidateBash

NoBash ==
    /\ command = <<>>
    /\ bash_pc = "start"
    /\ violations = <<>>

(***************************************************************************)
(* A MultiAPIFetch tool call before it runs: api-validator.py main checks  *)
(* the rate limits (validate_rate_limits) and security-validator.py main   *)
(* checks the urls (validate_api_urls).  Each hook is a process of its     *)
(* own; exit code 2 of either blocks the tool call.                        *)
(***************************************************************************)
\* api-validator.py line 101
DefaultQuota == 100
\* api-validator.py lines 68, 102
DefaultWindow == 60000
\* api-validator.py line 110
DogQuota == 1000

\* sub in str
Contains(str, sub) ==
    \E i \in 1..(Len(str) - Len(sub) + 1) : SubSeq(str, i, i + Len(sub) - 1) = sub

\* str.strip()
Strip(str) ==
    LET keep == {i \in 1..Len(str) : str[i] \notin Whitespace}
    IN  IF keep = {} THEN <<>>
        ELSE SubSeq(str, CHOOSE i \in keep : \A j \in keep : i <= j,
                         CHOOSE i \in keep : \A j \in keep : i >= j)

NonEmpty(str) == str # <<>>

\* api-validator.py lines 63-82: '<digits><s|m|h|d>' in milliseconds, one minute otherwise
parse_time_window(time_window) ==
    LET str  == ToLower(time_window)
        unit == str[Len(str)]
        num  == DecValue(SubSeq(str, 1, Len(str) - 1))
    IN  IF /\ Len(str) >= 2
           /\ \A i \in 1..(Len(str) - 1) : str[i] \in Range(Digits)
           /\ unit \in {"s", "m", "h", "d"}
        THEN CASE unit = "s" -> num * 1000
               [] unit = "m" -> num * 60 * 1000
               [] unit = "h" -> num * 60 * 60 * 1000
               [] unit = "d" -> num * 24 * 60 * 60 * 1000
        ELSE DefaultWindow

Unknown == <<"u", "n", "k", "n", "o", "w", "n">>

\* api-validator.py lines 84-91
get_api_name_from_url(str) ==
    IF UrlParseRaises(str) THEN Unknown
    ELSE IF UrlHostname(str) = <<>> THEN Unknown
    ELSE UrlHostname(str)

\* api-validator.py lines 101-111
RateLimitsOf(str) ==
    IF Contains(str, <<"c", "a", "t", "f", "a", "c", "t", ".", "n", "i", "n", "j", "a">>)
    THEN [max_requests |-> 100, time_window_ms |-> parse_time_window(<<"1", "h">>)]
    ELSE IF Contains(str, <<"d", "o", "g", ".", "c", "e", "o">>)
    THEN [max_requests |-> DogQuota, time_window_ms |-> parse_time_window(<<"1", "h">>)]
    ELSE [max_requests |-> DefaultQuota, time_window_ms |-> DefaultWindow]

\* api-validator.py lines 23-51 on the map: the map after the call
StatesAfterCall(states, api_name, max_requests, time_window_ms, now) ==
    Put(states, api_name,
        Consume(Refill(StateOf(states, api_name, max_requests, now),
                       max_requests, time_window_ms, now)))

\* api-validator.py lines 23-51 on the map: the value returned
CallAllowed(states, api_name, max_requests, time_window_ms, now) ==
    CanConsume(Refill(StateOf(states, api_name, max_requests, now),
                      max_requests, time_window_ms, now))

\* api-validator.py lines 114-115: the message holds the key and the status read back
RateViolation(states, api_name) ==
    [kind |-> "rate", api_name |-> api_name,
     request_count |-> StatusOf(states, api_name).val.request_count,
     tokens |-> StatusOf(states, api_name).val.tokens]

\* security-validator.py line 125: the message holds the url
SsrfViolation(str) == [kind |-> "ssrf", url |-> str]

\* security-validator.py lines 119-120: the allowed hosts of the environment
AllowedHostsOf(env) ==
    SelectSeq([i \in 1..Len(Split(env, ",")) |-> Strip(Split(env, ",")[i])], NonEmpty)

\* CheckedUrl keeping the latest violation only
CheckedUrlLatestOnly(found, str, allowed) ==
    IF ~validate_url(str, allowed) THEN <<SsrfViolation(str)>> ELSE found

\* security-validator.py lines 123-125: the violations after one url of the loop
CheckedUrl(found, str, allowed) ==
    IF ~validate_url(str, allowed) THEN Append(found, SsrfViolation(str)) ELSE found

\* api-validator.py lines 247-252, 268 and security-validator.py lines 155-163
ExitOf(found) == IF found # <<>> THEN 2 ELSE 0

\* a hook that has not exited
Running == 0 - 1

\* the longest tail of a batch, and the windows the clock may advance by
MaxTail == 2
MaxBatchTicks == 1

BatchUrls ==
    { <<"h", "t", "t", "p", ":", "/", "/", "1", "0", ".", "0", ".", "0", ".", "5">>,
      <<"h", "t", "t", "p", ":", "/", "/", "e", "x", "a", "m", "p", "l", "e", ".", "c", "o", "m", "/">>,
      <<"h", "t", "t", "p", "s", ":", "/", "/", "a", "p", "i", ".", "e", "x", "a", "m", "p", "l", "e", ".", "c", "o", "m", "/", "x">>,
      <<"f", "t", "p", ":", "/", "/", "e", "x", "a", "m", "p", "l", "e", ".", "c", "o", "m">>,
      <<"e", "x", "a", "m", "p", "l", "e", ".", "c", "o", "m">>,
      <<"h", "t", "t", "p", ":", "/", "/", "e", "x", "a", "m", "p", "l", "e", ".", "c", "o", "m", "/", "?", "r", "e", "f", "=", "d", "o", "g", ".", "c", "e", "o">> }

Repeat(x, n) == [i \in 1..n |-> x]

Tails(urls) == UNION {[1..n -> urls] : n \in 0..MaxTail}

\* the urls that follow DefaultQuota requests to example.com
LateUrls ==
    { <<"h", "t", "t", "p", ":", "/", "/", "1", "0", ".", "0", ".", "0", ".", "5">>,
      <<"h", "t", "t", "p", ":", "/", "/", "e", "x", "a", "m", "p", "l", "e", ".", "c", "o", "m", "/">> }

\* a batch: at most MaxTail urls, alone or after DefaultQuota requests to one host
Batches ==
    Tails(BatchUrls)
    \cup {Repeat(<<"h", "t", "t", "p", ":", "/", "/", "e", "x", "a", "m", "p", "l", "e", ".", "c", "o", "m", "/">>, DefaultQuota) \o tl :
             tl \in Tails(LateUrls) \ {<<>>}}

EnvValues ==
    { <<>>,
      <<"*", ".", "e", "x", "a", "m", "p", "l", "e", ".", "c", "o", "m">>,
      <<" ", "e", "x", "a", "m", "p", "l", "e", ".", "c", "o", "m", " ", ",", ",", "*", ".", "e", "x", "a", "m", "p", "l", "e", ".", "c", "o", "m">> }

BatchInit ==
    /\ api_endpoints \in Batches
    /\ env_hosts \in EnvValues
    /\ now_ms = 0
    /\ rate_i = 1
    /\ rate_log = <<>>
    /\ rate_violations = <<>>
    /\ rate_exit = Running
    /\ ssrf_i = 1
    /\ ssrf_violations = <<>>
    /\ ssrf_exit = Running

\* the clock of the api-validator process advances by a window; it does so
\* while the last MaxTail urls of the batch are handled
BatchTick ==
    /\ rate_exit = Running
    /\ rate_i > Len(api_endpoints) - MaxTail
    /\ now_ms < MaxBatchTicks * DefaultWindow
    /\ now_ms' = now_ms + DefaultWindow
    /\ UNCHANGED <<api_states, api_endpoints, env_hosts, rate_i, rate_log, rate_violations,
                   rate_exit, ssrf_i, ssrf_violations, ssrf_exit>>
    /\ UNCHANGED notBatchVars

\* api-validator.py lines 113-115: the call of can_make_request for the key
\* and the limits of one url, and the violation when it is denied
RateLimitCall(api_name, max_requests, time_window_ms) ==
    LET after == StatesAfterCall(api_states, api_name, max_requests, time_window_ms, now_ms)
        ok    == CallAllowed(api_states, api_name, max_requests, time_window_ms, now_ms)
    IN  /\ api_states' = after
        /\ rate_log' = Append(rate_log, [key |-> api_name, ret |-> ok])
        /\ rate_violations' = IF ok THEN rate_violations
                              ELSE Append(rate_violations, RateViolation(after, api_name))

\* api-validator.py lines 97-115: one url of the loop of validate_rate_limits.
\* The hook runs before the other one starts or after it has exited.
RateLimitUrl ==
    /\ rate_exit = Running
    /\ ssrf_i = 1 \/ ssrf_exit # Running
    /\ rate_i <= Len(api_endpoints)
    /\ \E api_name \in {get_api_name_from_url(api_endpoints[rate_i])},
          limits \in {RateLimitsOf(api_endpoints[rate_i])} :
            RateLimitCall(api_name, limits.max_requests, limits.time_window_ms)
    /\ rate_i' = rate_i + 1
    /\ UNCHANGED <<api_endpoints, env_hosts, now_ms, rate_exit, ssrf_i, ssrf_violations, ssrf_exit>>
    /\ UNCHANGED notBatchVars

\* api-validator.py lines 246-252, 268: after the loop
RateHookExit ==
    /\ rate_exit = Running
    /\ rate_i > Len(api_endpoints)
    /\ rate_exit' = ExitOf(rate_violations)
    /\ UNCHANGED <<api_states, api_endpoints, env_hosts, now_ms, rate_i, rate_log,
                   rate_violations, ssrf_i, ssrf_violations, ssrf_exit>>
    /\ UNCHANGED notBatchVars

\* security-validator.py lines 122-125: one url of the loop of validate_api_urls.
\* The hook runs before the other one starts or after it has exited.
CheckUrl ==
    /\ ssrf_exit = Running
    /\ rate_i = 1 \/ rate_exit # Running
    /\ ssrf_i <= Len(api_endpoints)
    /\ ssrf_violations' = CheckedUrl(ssrf_violations, api_endpoints[ssrf_i],
                                     AllowedHostsOf(env_hosts))
    /\ ssrf_i' = ssrf_i + 1
    /\ UNCHANGED <<api_states, api_endpoints, env_hosts, now_ms, rate_i, rate_log,
                   rate_violations, rate_exit, ssrf_exit>>
    /\ UNCHANGED notBatchVars

\* security-validator.py lines 155-163: after the loop
SecurityHookExit ==
    /\ ssrf_exit = Running
    /\ ssrf_i > Len(api_endpoints)
    /\ ssrf_exit' = ExitOf(ssrf_violations)
    /\ UNCHANGED <<api_states, api_endpoints, env_hosts, now_ms, rate_i, rate_log,
                   rate_violations, rate_exit, ssrf_i, ssrf_violations>>
    /\ UNCHANGED notBatchVars

BatchNext ==
    \/ BatchTick
    \/ RateLimitUrl
    \/ RateHookExit
    \/ CheckUrl
    \/ SecurityHookExit

NoBatch ==
    /\ api_endpoints = <<>>
    /\ env_hosts = <<>>
    /\ now_ms = 0
    /\ rate_i = 1
    /\ rate_log = <<>>
    /\ rate_violations = <<>>
    /\ rate_exit = Running
    /\ ssrf_i = 1
    /\ ssrf_violations = <<>>
    /\ ssrf_exit = Running

(***************************************************************************)
(* python-code-validator.py: main parses the source with ast.parse and     *)
(* walks the tree with validate_node.  A name (a node class, an            *)
(* identifier, a module) is a string.                                      *)
(***************************************************************************)
ALLOWED_NODES ==
    { "Add", "And", "Assert", "Assign", "Attribute", "AugAssign",
      "Await", "BinOp", "BitAnd", "BitOr", "BitXor", "BoolOp",
      "Break", "Call", "Compare", "Continue", "Delete", "Dict",
      "DictComp", "Div", "Eq", "Expr", "ExtSlice", "FloorDiv",
      "For", "GeneratorExp", "Global", "Gt", "GtE", "If",
      "IfExp", "Import", "ImportFrom", "In", "Index", "Invert",
      "Is", "IsNot", "LShift", "Lambda", "List", "ListComp",
      "Load", "Lt", "LtE", "Mod", "Module", "Mult",
      "Name", "Nonlocal", "Not", "NotEq", "NotIn", "Num",
      "Or", "Pass", "Pow", "RShift", "Raise", "Return",
      "Set", "SetComp", "Slice", "Store", "Str", "Sub",
      "Subscript", "Try", "Tuple", "UAdd", "USub", "UnaryOp",
      "While", "With", "Yield", "YieldFrom", "alias", "keyword" }

ALLOWED_BUILTINS ==
    { "abs", "all", "any", "ascii", "bin", "bool",
      "callable", "chr", "classmethod", "complex", "delattr", "dict",
      "dir", "divmod", "enumerate", "filter", "float", "format",
      "frozenset", "getattr", "globals", "hasattr", "hash", "help",
      "hex", "id", "int", "isinstance", "issubclass", "iter",
      "len", "list", "locals", "map", "max", "min",
      "next", "object", "oct", "ord", "pow", "print",
      "property", "range", "repr", "reversed", "round", "set",
      "setattr", "slice", "sorted", "staticmethod", "str", "sum",
      "super", "tuple", "type", "vars", "zip" }

ALLOWED_MODULES ==
    { "collections", "datetime", "functools", "itertools", "json", "math",
      "operator", "os.path", "random", "re", "string", "time" }

\* ast.parse of a source: whether it raises SyntaxError, and else the nodes of
\* the tree in the order ast.iter_child_nodes meets them depth first, each with
\* its class (kind), the index of its parent (0 for the root), for a Call of a
\* Name the identifier (func), for an import the alias names (names) and the
\* module of a from-import (module), and for a literal the class the ast
\* module gave it before Python 3.8 (legacy)
ParseTable ==
  <<
    [source |-> "import os", syntax_error |-> FALSE,
     nodes |-> << [kind |-> "Module", parent |-> 0, legacy |-> "", func |-> "", names |-> <<>>, module |-> ""],
                 [kind |-> "Import", parent |-> 1, legacy |-> "", func |-> "", names |-> <<"os">>, module |-> ""],
                 [kind |-> "alias", parent |-> 2, legacy |-> "", func |-> "", names |-> <<>>, module |-> ""] >>],
    [source |-> "print(1+2)", syntax_error |-> FALSE,
     nodes |-> << [kind |-> "Module", parent |-> 0, legacy |-> "", func |-> "", names |-> <<>>, module |-> ""],
                 [kind |-> "Expr", parent |-> 1, legacy |-> "", func |-> "", names |-> <<>>, module |-> ""],
                 [kind |-> "Call", parent |-> 2, legacy |-> "", func |-> "print", names |-> <<>>, module |-> ""],
                 [kind |-> "Name", parent |-> 3, legacy |-> "", func |-> "", names |-> <<>>, module |-> ""],
                 [kind |-> "Load", parent |-> 4, legacy |-> "", func |-> "", names |-> <<>>, module |-> ""],
                 [kind |-> "BinOp", parent |-> 3, legacy |-> "", func |-> "", names |-> <<>>, module |-> ""],
                 [kind |-> "Constant", parent |-> 6, legacy |-> "Num", func |-> "", names |-> <<>>, module |-> ""],
                 [kind |-> "Add", parent |-> 6, legacy |-> "", func |-> "", names |-> <<>>, module |-> ""],
                 [kind |-> "Constant", parent |-> 6, legacy |-> "Num", func |-> "", names |-> <<>>, module |-> ""] >>],
    [source |-> "eval('1')", syntax_error |-> FALSE,
     nodes |-> << [kind |-> "Module", parent |-> 0, legacy |-> "", func |-> "", names |-> <<>>, module |-> ""],
                 [kind |-> "Expr", parent |-> 1, legacy |-> "", func |-> "", names |-> <<>>, module |-> ""],
                 [kind |-> "Call", parent |-> 2, legacy |-> "", func |-> "eval", names |-> <<>>, module |-> ""],
                 [kind |-> "Name", parent |-> 3, legacy |-> "", func |-> "", names |-> <<>>, module |-> ""],
                 [kind |-> "Load", parent |-> 4, legacy |-> "", func |-> "", names |-> <<>>, module |-> ""],
                 [kind |-> "Constant", parent |-> 3, legacy |-> "Str", func |-> "", names |-> <<>>, module |-> ""] >>],
    [source |-> "import math", syntax_error |-> FALSE,
     nodes |-> << [kind |-> "Module", parent |-> 0, legacy |-> "", func |-> "", names |-> <<>>, module |-> ""],
                 [kind |-> "Import", parent |-> 1, legacy |-> "", func |-> "", names |-> <<"math">>, module |-> ""],
                 [kind |-> "alias", parent |-> 2, legacy |-> "", func |-> "", names |-> <<>>, module |-> ""] >>],
    [source |-> "from math import sqrt", syntax_error |-> FALSE,
     nodes |-> << [kind |-> "Module", parent |-> 0, legacy |-> "", func |-> "", names |-> <<>>, module |-> ""],
                 [kind |-> "ImportFrom", parent |-> 1, legacy |-> "", func |-> "", names |-> <<"sqrt">>, module |-> "math"],
                 [kind |-> "alias", parent |-> 2, legacy |-> "", func |-> "", names |-> <<>>, module |-> ""] >>],
    [source |-> "from os import path", syntax_error |-> FALSE,
     nodes |-> << [kind |-> "Module", parent |-> 0, legacy |-> "", func |-> "", names |-> <<>>, module |-> ""],
                 [kind |-> "ImportFrom", parent |-> 1, legacy |-> "", func |-> "", names |-> <<"path">>, module |-> "os"],
                 [kind |-> "alias", parent |-> 2, legacy |-> "", func |-> "", names |-> <<>>, module |-> ""] >>],
    [source |-> "from subprocess import time", syntax_error |-> FALSE,
     nodes |-> << [kind |-> "Module", parent |-> 0, legacy |-> "", func |-> "", names |-> <<>>, module |-> ""],
                 [kind |-> "ImportFrom", parent |-> 1, legacy |-> "", func |-> "", names |-> <<"time">>, module |-> "subprocess"],
                 [kind |-> "alias", parent |-> 2, legacy |-> "", func |-> "", names |-> <<>>, module |-> ""] >>],
    [source |-> "import os.path", syntax_error |-> FALSE,
     nodes |-> << [kind |-> "Module", parent |-> 0, legacy |-> "", func |-> "", names |-> <<>>, module |-> ""],
                 [kind |-> "Import", parent |-> 1, legacy |-> "", func |-> "", names |-> <<"os.path">>, module |-> ""],
                 [kind |-> "alias", parent |-> 2, legacy |-> "", func |-> "", names |-> <<>>, module |-> ""] >>],
    [source |-> "import math, os", syntax_error |-> FALSE,
     nodes |-> << [kind |-> "Module", parent |-> 0, legacy |-> "", func |-> "", names |-> <<>>, module |-> ""],
                 [kind |-> "Import", parent |-> 1, legacy |-> "", func |-> "", names |-> <<"math", "os">>, module |-> ""],
                 [kind |-> "alias", parent |-> 2, legacy |-> "", func |-> "", names |-> <<>>, module |-> ""],
                 [kind |-> "alias", parent |-> 2, legacy |-> "", func |-> "", names |-> <<>>, module |-> ""] >>],
    [source |-> "import os as math", syntax_error |-> FALSE,
     nodes |-> << [kind |-> "Module", parent |-> 0, legacy |-> "", func |-> "", names |-> <<>>, module |-> ""],
                 [kind |-> "Import", parent |-> 1, legacy |-> "", func |-> "", names |-> <<"os">>, module |-> ""],
                 [kind |-> "alias", parent |-> 2, legacy |-> "", func |-> "", names |-> <<>>, module |-> ""] >>],
    [source |-> "x = 1", syntax_error |-> FALSE,
     nodes |-> << [kind |-> "Module", parent |-> 0, legacy |-> "", func |-> "", names |-> <<>>, module |-> ""],
                 [kind |-> "Assign", parent |-> 1, legacy |-> "", func |-> "", names |-> <<>>, module |-> ""],
                 [kind |-> "Name", parent |-> 2, legacy |-> "", func |-> "", names |-> <<>>, module |-> ""],
                 [kind |-> "Store", parent |-> 3, legacy |-> "", func |-> "", names |-> <<>>, module |-> ""],
                 [kind |-> "Constant", parent |-> 2, legacy |-> "Num", func |-> "", names |-> <<>>, module |-> ""] >>],
    [source |-> "lambda x: x", syntax_error |-> FALSE,
     nodes |-> << [kind |-> "Module", parent |-> 0, legacy |-> "", func |-> "", names |-> <<>>, module |-> ""],
                 [kind |-> "Expr", parent |-> 1, legacy |-> "", func |-> "", names |-> <<>>, module |-> ""],
                 [kind |-> "Lambda", parent |-> 2, legacy |-> "", func |-> "", names |-> <<>>, module |-> ""],
                 [kind |-> "arguments", parent |-> 3, legacy |-> "", func |-> "", names |-> <<>>, module |-> ""],
                 [kind |-> "arg", parent |-> 4, legacy |-> "", func |-> "", names |-> <<>>, module |-> ""],
                 [kind |-> "Name", parent |-> 3, legacy |-> "", func |-> "", names |-> <<>>, module |-> ""],
                 [kind |-> "Load", parent |-> 6, legacy |-> "", func |-> "", names |-> <<>>, module |-> ""] >>],
    [source |-> "def f(a):\n    return a", syntax_error |-> FALSE,
     nodes |-> << [kind |-> "Module", parent |-> 0, legacy |-> "", func |-> "", names |-> <<>>, module |-> ""],
                 [kind |-> "FunctionDef", parent |-> 1, legacy |-> "", func |-> "", names |-> <<>>, module |-> ""],
                 [kind |-> "arguments", parent |-> 2, legacy |-> "", func |-> "", names |-> <<>>, module |-> ""],
                 [kind |-> "arg", parent |-> 3, legacy |-> "", func |-> "", names |-> <<>>, module |-> ""],
                 [kind |-> "Return", parent |-> 2, legacy |-> "", func |-> "", names |-> <<>>, module |-> ""],
                 [kind |-> "Name", parent |-> 5, legacy |-> "", func |-> "", names |-> <<>>, module |-> ""],
                 [kind |-> "Load", parent |-> 6, legacy |-> "", func |-> "", names |-> <<>>, module |-> ""] >>],
    [source |-> "[i for i in range(3)]", syntax_error |-> FALSE,
     nodes |-> << [kind |-> "Module", parent |-> 0, legacy |-> "", func |-> "", names |-> <<>>, module |-> ""],
                 [kind |-> "Expr", parent |-> 1, legacy |-> "", func |-> "", names |-> <<>>, module |-> ""],
                 [kind |-> "ListComp", parent |-> 2, legacy |-> "", func |-> "", names |-> <<>>, module |-> ""],
                 [kind |-> "Name", parent |-> 3, legacy |-> "", func |-> "", names |-> <<>>, module |-> ""],
                 [kind |-> "Load", parent |-> 4, legacy |-> "", func |-> "", names |-> <<>>, module |-> ""],
                 [kind |-> "comprehension", parent |-> 3, legacy |-> "", func |-> "", names |-> <<>>, module |-> ""],
                 [kind |-> "Name", parent |-> 6, legacy |-> "", func |-> "", names |-> <<>>, module |-> ""],
                 [kind |-> "Store", parent |-> 7, legacy |-> "", func |-> "", names |-> <<>>, module |-> ""],
                 [kind |-> "Call", parent |-> 6, legacy |-> "", func |-> "range", names |-> <<>>, module |-> ""],
                 [kind |-> "Name", parent |-> 9, legacy |-> "", func |-> "", names |-> <<>>, module |-> ""],
                 [kind |-> "Load", parent |-> 10, legacy |-> "", func |-> "", names |-> <<>>, module |-> ""],
                 [kind |-> "Constant", parent |-> 9, legacy |-> "Num", func |-> "", names |-> <<>>, module |-> ""] >>],
    [source |-> "try:\n    pass\nexcept Exception:\n    pass", syntax_error |-> FALSE,
     nodes |-> << [kind |-> "Module", parent |-> 0, legacy |-> "", func |-> "", names |-> <<>>, module |-> ""],
                 [kind |-> "Try", parent |-> 1, legacy |-> "", func |-> "", names |-> <<>>, module |-> ""],
                 [kind |-> "Pass", parent |-> 2, legacy |-> "", func |-> "", names |-> <<>>, module |-> ""],
                 [kind |-> "ExceptHandler", parent |-> 2, legacy |-> "", func |-> "", names |-> <<>>, module |-> ""],
                 [kind |-> "Name", parent |-> 4, legacy |-> "", func |-> "", names |-> <<>>, module |-> ""],
                 [kind |-> "Load", parent |-> 5, legacy |-> "", func |-> "", names |-> <<>>, module |-> ""],
                 [kind |-> "Pass", parent |-> 4, legacy |-> "", func |-> "", names |-> <<>>, module |-> ""] >>],
    [source |-> "x.y(z)", syntax_error |-> FALSE,
     nodes |-> << [kind |-> "Module", parent |-> 0, legacy |-> "", func |-> "", names |-> <<>>, module |-> ""],
                 [kind |-> "Expr", parent |-> 1, legacy |-> "", func |-> "", names |-> <<>>, module |-> ""],
                 [kind |-> "Call", parent |-> 2, legacy |-> "", func |-> "", names |-> <<>>, module |-> ""],
                 [kind |-> "Attribute", parent |-> 3, legacy |-> "", func |-> "", names |-> <<>>, module |-> ""],
                 [kind |-> "Name", parent |-> 4, legacy |-> "", func |-> "", names |-> <<>>, module |-> ""],
                 [kind |-> "Load", parent |-> 5, legacy |-> "", func |-> "", names |-> <<>>, module |-> ""],
                 [kind |-> "Load", parent |-> 4, legacy |-> "", func |-> "", names |-> <<>>, module |-> ""],
                 [kind |-> "Name", parent |-> 3, legacy |-> "", func |-> "", names |-> <<>>, module |-> ""],
                 [kind |-> "Load", parent |-> 8, legacy |-> "", func |-> "", names |-> <<>>, module |-> ""] >>],
    [source |-> "print(eval('1'))", syntax_error |-> FALSE,
     nodes |-> << [kind |-> "Module", parent |-> 0, legacy |-> "", func |-> "", names |-> <<>>, module |-> ""],
                 [kind |-> "Expr", parent |-> 1, legacy |-> "", func |-> "", names |-> <<>>, module |-> ""],
                 [kind |-> "Call", parent |-> 2, legacy |-> "", func |-> "print", names |-> <<>>, module |-> ""],
                 [kind |-> "Name", parent |-> 3, legacy |-> "", func |-> "", names |-> <<>>, module |-> ""],
                 [kind |-> "Load", parent |-> 4, legacy |-> "", func |-> "", names |-> <<>>, module |-> ""],
                 [kind |-> "Call", parent |-> 3, legacy |-> "", func |-> "eval", names |-> <<>>, module |-> ""],
                 [kind |-> "Name", parent |-> 6, legacy |-> "", func |-> "", names |-> <<>>, module |-> ""],
                 [kind |-> "Load", parent |-> 7, legacy |-> "", func |-> "", names |-> <<>>, module |-> ""],
                 [kind |-> "Constant", parent |-> 6, legacy |-> "Str", func |-> "", names |-> <<>>, module |-> ""] >>],
    [source |-> "x.y.z(open(f))", syntax_error |-> FALSE,
     nodes |-> << [kind |-> "Module", parent |-> 0, legacy |-> "", func |-> "", names |-> <<>>, module |-> ""],
                 [kind |-> "Expr", parent |-> 1, legacy |-> "", func |-> "", names |-> <<>>, module |-> ""],
                 [kind |-> "Call", parent |-> 2, legacy |-> "", func |-> "", names |-> <<>>, module |-> ""],
                 [kind |-> "Attribute", parent |-> 3, legacy |-> "", func |-> "", names |-> <<>>, module |-> ""],
                 [kind |-> "Attribute", parent |-> 4, legacy |-> "", func |-> "", names |-> <<>>, module |-> ""],
                 [kind |-> "Name", parent |-> 5, legacy |-> "", func |-> "", names |-> <<>>, module |-> ""],
                 [kind |-> "Load", parent |-> 6, legacy |-> "", func |-> "", names |-> <<>>, module |-> ""],
                 [kind |-> "Load", parent |-> 5, legacy |-> "", func |-> "", names |-> <<>>, module |-> ""],
                 [kind |-> "Load", parent |-> 4, legacy |-> "", func |-> "", names |-> <<>>, module |-> ""],
                 [kind |-> "Call", parent |-> 3, legacy |-> "", func |-> "open", names |-> <<>>, module |-> ""],
                 [kind |-> "Name", parent |-> 10, legacy |-> "", func |-> "", names |-> <<>>, module |-> ""],
                 [kind |-> "Load", parent |-> 11, legacy |-> "", func |-> "", names |-> <<>>, module |-> ""],
                 [kind |-> "Name", parent |-> 10, legacy |-> "", func |-> "", names |-> <<>>, module |-> ""],
                 [kind |-> "Load", parent |-> 13, legacy |-> "", func |-> "", names |-> <<>>, module |-> ""] >>],
    [source |-> "while x:\n    import os", syntax_error |-> FALSE,
     nodes |-> << [kind |-> "Module", parent |-> 0, legacy |-> "", func |-> "", names |-> <<>>, module |-> ""],
                 [kind |-> "While", parent |-> 1, legacy |-> "", func |-> "", names |-> <<>>, module |-> ""],
                 [kind |-> "Name", parent |-> 2, legacy |-> "", func |-> "", names |-> <<>>, module |-> ""],
                 [kind |-> "Load", parent |-> 3, legacy |-> "", func |-> "", names |-> <<>>, module |-> ""],
                 [kind |-> "Import", parent |-> 2, legacy |-> "", func |-> "", names |-> <<"os">>, module |-> ""],
                 [kind |-> "alias", parent |-> 5, legacy |-> "", func |-> "", names |-> <<>>, module |-> ""] >>],
    [source |-> "if x:\n    pass\nelse:\n    eval(y)", syntax_error |-> FALSE,
     nodes |-> << [kind |-> "Module", parent |-> 0, legacy |-> "", func |-> "", names |-> <<>>, module |-> ""],
                 [kind |-> "If", parent |-> 1, legacy |-> "", func |-> "", names |-> <<>>, module |-> ""],
                 [kind |-> "Name", parent |-> 2, legacy |-> "", func |-> "", names |-> <<>>, module |-> ""],
                 [kind |-> "Load", parent |-> 3, legacy |-> "", func |-> "", names |-> <<>>, module |-> ""],
                 [kind |-> "Pass", parent |-> 2, legacy |-> "", func |-> "", names |-> <<>>, module |-> ""],
                 [kind |-> "Expr", parent |-> 2, legacy |-> "", func |-> "", names |-> <<>>, module |-> ""],
                 [kind |-> "Call", parent |-> 6, legacy |-> "", func |-> "eval", names |-> <<>>, module |-> ""],
                 [kind |-> "Name", parent |-> 7, legacy |-> "", func |-> "", names |-> <<>>, module |-> ""],
                 [kind |-> "Load", parent |-> 8, legacy |-> "", func |-> "", names |-> <<>>, module |-> ""],
                 [kind |-> "Name", parent |-> 7, legacy |-> "", func |-> "", names |-> <<>>, module |-> ""],
                 [kind |-> "Load", parent |-> 10, legacy |-> "", func |-> "", names |-> <<>>, module |-> ""] >>],
    [source |-> "x +", syntax_error |-> TRUE,
     nodes |-> <<  >>],
    [source |-> "", syntax_error |-> FALSE,
     nodes |-> << [kind |-> "Module", parent |-> 0, legacy |-> "", func |-> "", names |-> <<>>, module |-> ""] >>],
    [source |-> "pass", syntax_error |-> FALSE,
     nodes |-> << [kind |-> "Module", parent |-> 0, legacy |-> "", func |-> "", names |-> <<>>, module |-> ""],
                 [kind |-> "Pass", parent |-> 1, legacy |-> "", func |-> "", names |-> <<>>, module |-> ""] >>],
    [source |-> "class A:\n    pass", syntax_error |-> FALSE,
     nodes |-> << [kind |-> "Module", parent |-> 0, legacy |-> "", func |-> "", names |-> <<>>, module |-> ""],
                 [kind |-> "ClassDef", parent |-> 1, legacy |-> "", func |-> "", names |-> <<>>, module |-> ""],
                 [kind |-> "Pass", parent |-> 2, legacy |-> "", func |-> "", names |-> <<>>, module |-> ""] >>],
    [source |-> "not x", syntax_error |-> FALSE,
     nodes |-> << [kind |-> "Module", parent |-> 0, legacy |-> "", func |-> "", names |-> <<>>, module |-> ""],
                 [kind |-> "Expr", parent |-> 1, legacy |-> "", func |-> "", names |-> <<>>, module |-> ""],
                 [kind |-> "UnaryOp", parent |-> 2, legacy |-> "", func |-> "", names |-> <<>>, module |-> ""],
                 [kind |-> "Not", parent |-> 3, legacy |-> "", func |-> "", names |-> <<>>, module |-> ""],
                 [kind |-> "Name", parent |-> 3, legacy |-> "", func |-> "", names |-> <<>>, module |-> ""],
                 [kind |-> "Load", parent |-> 5, legacy |-> "", func |-> "", names |-> <<>>, module |-> ""] >>],
    [source |-> "x < y and y < z", syntax_error |-> FALSE,
     nodes |-> << [kind |-> "Module", parent |-> 0, legacy |-> "", func |-> "", names |-> <<>>, module |-> ""],
                 [kind |-> "Expr", parent |-> 1, legacy |-> "", func |-> "", names |-> <<>>, module |-> ""],
                 [kind |-> "BoolOp", parent |-> 2, legacy |-> "", func |-> "", names |-> <<>>, module |-> ""],
                 [kind |-> "And", parent |-> 3, legacy |-> "", func |-> "", names |-> <<>>, module |-> ""],
                 [kind |-> "Compare", parent |-> 3, legacy |-> "", func |-> "", names |-> <<>>, module |-> ""],
                 [kind |-> "Name", parent |-> 5, legacy |-> "", func |-> "", names |-> <<>>, module |-> ""],
                 [kind |-> "Load", parent |-> 6, legacy |-> "", func |-> "", names |-> <<>>, module |-> ""],
                 [kind |-> "Lt", parent |-> 5, legacy |-> "", func |-> "", names |-> <<>>, module |-> ""],
                 [kind |-> "Name", parent |-> 5, legacy |-> "", func |-> "", names |-> <<>>, module |-> ""],
                 [kind |-> "Load", parent |-> 9, legacy |-> "", func |-> "", names |-> <<>>, module |-> ""],
                 [kind |-> "Compare", parent |-> 3, legacy |-> "", func |-> "", names |-> <<>>, module |-> ""],
                 [kind |-> "Name", parent |-> 11, legacy |-> "", func |-> "", names |-> <<>>, module |-> ""],
                 [kind |-> "Load", parent |-> 12, legacy |-> "", func |-> "", names |-> <<>>, module |-> ""],
                 [kind |-> "Lt", parent |-> 11, legacy |-> "", func |-> "", names |-> <<>>, module |-> ""],
                 [kind |-> "Name", parent |-> 11, legacy |-> "", func |-> "", names |-> <<>>, module |-> ""],
                 [kind |-> "Load", parent |-> 15, legacy |-> "", func |-> "", names |-> <<>>, module |-> ""] >>],
    [source |-> "print(x)", syntax_error |-> FALSE,
     nodes |-> << [kind |-> "Module", parent |-> 0, legacy |-> "", func |-> "", names |-> <<>>, module |-> ""],
                 [kind |-> "Expr", parent |-> 1, legacy |-> "", func |-> "", names |-> <<>>, module |-> ""],
                 [kind |-> "Call", parent |-> 2, legacy |-> "", func |-> "print", names |-> <<>>, module |-> ""],
                 [kind |-> "Name", parent |-> 3, legacy |-> "", func |-> "", names |-> <<>>, module |-> ""],
                 [kind |-> "Load", parent |-> 4, legacy |-> "", func |-> "", names |-> <<>>, module |-> ""],
                 [kind |-> "Name", parent |-> 3, legacy |-> "", func |-> "", names |-> <<>>, module |-> ""],
                 [kind |-> "Load", parent |-> 6, legacy |-> "", func |-> "", names |-> <<>>, module |-> ""] >>],
    [source |-> "len(x) + abs(y)", syntax_error |-> FALSE,
     nodes |-> << [kind |-> "Module", parent |-> 0, legacy |-> "", func |-> "", names |-> <<>>, module |-> ""],
                 [kind |-> "Expr", parent |-> 1, legacy |-> "", func |-> "", names |-> <<>>, module |-> ""],
                 [kind |-> "BinOp", parent |-> 2, legacy |-> "", func |-> "", names |-> <<>>, module |-> ""],
                 [kind |-> "Call", parent |-> 3, legacy |-> "", func |-> "len", names |-> <<>>, module |-> ""],
                 [kind |-> "Name", parent |-> 4, legacy |-> "", func |-> "", names |-> <<>>, module |-> ""],
                 [kind |-> "Load", parent |-> 5, legacy |-> "", func |-> "", names |-> <<>>, module |-> ""],
                 [kind |-> "Name", parent |-> 4, legacy |-> "", func |-> "", names |-> <<>>, module |-> ""],
                 [kind |-> "Load", parent |-> 7, legacy |-> "", func |-> "", names |-> <<>>, module |-> ""],
                 [kind |-> "Add", parent |-> 3, legacy |-> "", func |-> "", names |-> <<>>, module |-> ""],
                 [kind |-> "Call", parent |-> 3, legacy |-> "", func |-> "abs", names |-> <<>>, module |-> ""],
                 [kind |-> "Name", parent |-> 10, legacy |-> "", func |-> "", names |-> <<>>, module |-> ""],
                 [kind |-> "Load", parent |-> 11, legacy |-> "", func |-> "", names |-> <<>>, module |-> ""],
                 [kind |-> "Name", parent |-> 10, legacy |-> "", func |-> "", names |-> <<>>, module |-> ""],
                 [kind |-> "Load", parent |-> 13, legacy |-> "", func |-> "", names |-> <<>>, module |-> ""] >>],
    [source |-> "f = exec", syntax_error |-> FALSE,
     nodes |-> << [kind |-> "Module", parent |-> 0, legacy |-> "", func |-> "", names |-> <<>>, module |-> ""],
                 [kind |-> "Assign", parent |-> 1, legacy |-> "", func |-> "", names |-> <<>>, module |-> ""],
                 [kind |-> "Name", parent |-> 2, legacy |-> "", func |-> "", names |-> <<>>, module |-> ""],
                 [kind |-> "Store", parent |-> 3, legacy |-> "", func |-> "", names |-> <<>>, module |-> ""],
                 [kind |-> "Name", parent |-> 2, legacy |-> "", func |-> "", names |-> <<>>, module |-> ""],
                 [kind |-> "Load", parent |-> 5, legacy |-> "", func |-> "", names |-> <<>>, module |-> ""] >>],
    [source |-> "from subprocess import time\neval('1')", syntax_error |-> FALSE,
     nodes |-> << [kind |-> "Module", parent |-> 0, legacy |-> "", func |-> "", names |-> <<>>, module |-> ""],
                 [kind |-> "ImportFrom", parent |-> 1, legacy |-> "", func |-> "", names |-> <<"time">>, module |-> "subprocess"],
                 [kind |-> "alias", parent |-> 2, legacy |-> "", func |-> "", names |-> <<>>, module |-> ""],
                 [kind |-> "Expr", parent |-> 1, legacy |-> "", func |-> "", names |-> <<>>, module |-> ""],
                 [kind |-> "Call", parent |-> 4, legacy |-> "", func |-> "eval", names |-> <<>>, module |-> ""],
                 [kind |-> "Name", parent |-> 5, legacy |-> "", func |-> "", names |-> <<>>, module |-> ""],
                 [kind |-> "Load", parent |-> 6, legacy |-> "", func |-> "", names |-> <<>>, module |-> ""],
                 [kind |-> "Constant", parent |-> 5, legacy |-> "Str", func |-> "", names |-> <<>>, module |-> ""] >>],
    [source |-> "x = True", syntax_error |-> FALSE,
     nodes |-> << [kind |-> "Module", parent |-> 0, legacy |-> "", func |-> "", names |-> <<>>, module |-> ""],
                 [kind |-> "Assign", parent |-> 1, legacy |-> "", func |-> "", names |-> <<>>, module |-> ""],
                 [kind |-> "Name", parent |-> 2, legacy |-> "", func |-> "", names |-> <<>>, module |-> ""],
                 [kind |-> "Store", parent |-> 3, legacy |-> "", func |-> "", names |-> <<>>, module |-> ""],
                 [kind |-> "Constant", parent |-> 2, legacy |-> "NameConstant", func |-> "", names |-> <<>>, module |-> ""] >>],
    [source |-> "print(x, sep=y)", syntax_error |-> FALSE,
     nodes |-> << [kind |-> "Module", parent |-> 0, legacy |-> "", func |-> "", names |-> <<>>, module |-> ""],
                 [kind |-> "Expr", parent |-> 1, legacy |-> "", func |-> "", names |-> <<>>, module |-> ""],
                 [kind |-> "Call", parent |-> 2, legacy |-> "", func |-> "print", names |-> <<>>, module |-> ""],
                 [kind |-> "Name", parent |-> 3, legacy |-> "", func |-> "", names |-> <<>>, module |-> ""],
                 [kind |-> "Load", parent |-> 4, legacy |-> "", func |-> "", names |-> <<>>, module |-> ""],
                 [kind |-> "Name", parent |-> 3, legacy |-> "", func |-> "", names |-> <<>>, module |-> ""],
                 [kind |-> "Load", parent |-> 6, legacy |-> "", func |-> "", names |-> <<>>, module |-> ""],
                 [kind |-> "keyword", parent |-> 3, legacy |-> "", func |-> "", names |-> <<>>, module |-> ""],
                 [kind |-> "Name", parent |-> 8, legacy |-> "", func |-> "", names |-> <<>>, module |-> ""],
                 [kind |-> "Load", parent |-> 9, legacy |-> "", func |-> "", names |-> <<>>, module |-> ""] >>],
    [source |-> "from math import sqrt\nimport os", syntax_error |-> FALSE,
     nodes |-> << [kind |-> "Module", parent |-> 0, legacy |-> "", func |-> "", names |-> <<>>, module |-> ""],
                 [kind |-> "ImportFrom", parent |-> 1, legacy |-> "", func |-> "", names |-> <<"sqrt">>, module |-> "math"],
                 [kind |-> "alias", parent |-> 2, legacy |-> "", func |-> "", names |-> <<>>, module |-> ""],
                 [kind |-> "Import", parent |-> 1, legacy |-> "", func |-> "", names |-> <<"os">>, module |-> ""],
                 [kind |-> "alias", parent |-> 4, legacy |-> "", func |-> "", names |-> <<>>, module |-> ""] >>]
  >>

Sources == {ParseTable[i].source : i \in DOMAIN ParseTable}

ast_parse(src) == CHOOSE row \in Range(ParseTable) : row.source = src

\* the ast module parses a literal to Num, Str, Bytes, NameConstant or Ellipsis
\* before Python 3.8 and to Constant from Python 3.8 on
AstVersions == {"legacy", "current"}

\* type(node).__name__
NodeType(node, version) ==
    IF node.kind = "Constant" /\ version = "legacy" THEN node.legacy ELSE node.kind

\* ast.iter_child_nodes(node), as indices into the tree
Children(nodes, n) ==
    SelectSeq([i \in 1..Len(nodes) |-> i], LAMBDA i : nodes[i].parent = n)

NoException == [exception |-> "", message |-> "", name |-> ""]

SecurityViolation(message, name) ==
    [exception |-> "SecurityViolation", message |-> message, name |-> name]

SyntaxError == [exception |-> "SyntaxError", message |-> "invalid syntax", name |-> ""]

\* the first alias of the import whose name is not an allowed module
DisallowedAlias(names) ==
    LET bad == {i \in 1..Len(names) : names[i] \notin ALLOWED_MODULES}
    IN  IF bad = {} THEN "" ELSE names[CHOOSE i \in bad : \A j \in bad : i <= j]

\* the checks validate_node makes on the node itself: what it raises
NodeChecks(node, version) ==
    IF NodeType(node, version) \notin ALLOWED_NODES
      THEN SecurityViolation("Disallowed AST node", NodeType(node, version))
    ELSE IF node.kind = "Call" /\ node.func # "" /\ node.func \notin ALLOWED_BUILTINS
      THEN SecurityViolation("Disallowed built-in function", node.func)
    ELSE IF node.kind \in {"Import", "ImportFrom"} /\ DisallowedAlias(node.names) # ""
      THEN SecurityViolation("Disallowed module import", DisallowedAlias(node.names))
    ELSE NoException

AstInit ==
    /\ code \in Sources
    /\ ast_version \in AstVersions
    /\ tree = <<>>
    /\ pending = <<>>
    /\ visited = <<>>
    /\ raised = NoException
    /\ code_pc = "parse"
    /\ code_exit = Running

\* tree = ast.parse(code)
ParseCode ==
    /\ code_pc = "parse"
    /\ \E row \in {ast_parse(code)} :
         IF row.syntax_error
           THEN /\ raised' = SyntaxError
                /\ code_pc' = "except"
                /\ UNCHANGED <<tree, pending>>
           ELSE /\ tree' = row.nodes
                /\ pending' = <<1>>
                /\ code_pc' = "validate"
                /\ UNCHANGED raised
    /\ UNCHANGED <<code, ast_version, visited, code_exit>>
    /\ UNCHANGED notAstVars

\* one call of validate_node: the checks on the node, and then the calls on
\* its children are due before those on the nodes that were already waiting
validate_node ==
    /\ code_pc = "validate"
    /\ pending # <<>>
    /\ \E n \in {Head(pending)} :
         /\ visited' = Append(visited, n)
         /\ \E found \in {NodeChecks(tree[n], ast_version)} :
              IF found # NoException
                THEN /\ raised' = found
                     /\ code_pc' = "except"
                     /\ UNCHANGED pending
                ELSE /\ pending' = Children(tree, n) \o Tail(pending)
                     /\ UNCHANGED <<raised, code_pc>>
    /\ UNCHANGED <<code, ast_version, tree, code_exit>>
    /\ UNCHANGED notAstVars

\* validate_node(tree) returned: sys.exit(0)
CodeAccepted ==
    /\ code_pc = "validate"
    /\ pending = <<>>
    /\ code_pc' = "done"
    /\ code_exit' = 0
    /\ UNCHANGED <<code, ast_version, tree, pending, visited, raised>>
    /\ UNCHANGED notAstVars

\* except (SyntaxError, SecurityViolation): sys.exit(1)
CodeRejected ==
    /\ code_pc = "except"
    /\ code_pc' = "done"
    /\ code_exit' = 1
    /\ UNCHANGED <<code, ast_version, tree, pending, visited, raised>>
    /\ UNCHANGED notAstVars

AstNext ==
    \/ ParseCode
    \/ validate_node
    \/ CodeAccepted
    \/ CodeRejected

NoAst ==
    /\ code = ""
    /\ ast_version = "current"
    /\ tree = <<>>
    /\ pending = <<>>
    /\ visited = <<>>
    /\ raised = NoException
    /\ code_pc = "parse"
    /\ code_exit = Running

(***************************************************************************)
(* can_make_request called by several threads on one key, with one quota   *)
(* and one window.  The class holds no lock (lines 19-51) and the global   *)
(* instance (line 61) is shared, so the threads interleave between the     *)
(* statements, and between the load and the store of  x -= 1 / x += 1.     *)
(***************************************************************************)
NumThreads == 2
MaxConcCalls == 3
MaxClock == 2
ConcQuota == 1
ConcWindow == 2

Threads == 1..NumThreads

NoLocals == [now |-> 0, state |-> 0, tokens_to_add |-> 0, operand |-> 0]

SeqInit ==
    /\ api_states = [k \in {} |-> NewState(0, 0)]
    /\ last = NoCall
    /\ snapshot = NoSnapshot
    /\ hist = [k \in Keys |-> VoidRun(0)]

ConcInit ==
    /\ clock = 0
    /\ budget = MaxConcCalls
    /\ pc = [t \in Threads |-> "idle"]
    /\ loc = [t \in Threads |-> NoLocals]
    /\ heap = [t \in Threads |-> NewState(0, 0)]
    /\ slot = 0
    /\ grants = 0

\* the system clock advances
Tick ==
    /\ clock < MaxClock
    /\ clock' = clock + 1
    /\ UNCHANGED <<budget, pc, loc, heap, slot, grants>>
    /\ UNCHANGED notConcVars

\* line 25
T_ReadClock(t) ==
    /\ pc[t] = "idle"
    /\ budget > 0
    /\ budget' = budget - 1
    /\ loc' = [loc EXCEPT ![t] = [NoLocals EXCEPT !.now = clock]]
    /\ pc' = [pc EXCEPT ![t] = "l27"]
    /\ UNCHANGED <<clock, heap, slot, grants>>
    /\ UNCHANGED notConcVars

\* line 27
T_TestKey(t) ==
    /\ pc[t] = "l27"
    /\ pc' = [pc EXCEPT ![t] = IF slot = 0 THEN "l28" ELSE "l34"]
    /\ UNCHANGED <<clock, budget, loc, heap, slot, grants>>
    /\ UNCHANGED notConcVars

\* lines 28-32
T_Create(t) ==
    /\ pc[t] = "l28"
    /\ heap' = [heap EXCEPT ![t] = NewState(ConcQuota, loc[t].now)]
    /\ slot' = t
    /\ grants' = 0
    /\ pc' = [pc EXCEPT ![t] = "l34"]
    /\ UNCHANGED <<clock, budget, loc>>
    /\ UNCHANGED notConcVars

\* line 34
T_GetState(t) ==
    /\ pc[t] = "l34"
    /\ loc' = [loc EXCEPT ![t].state = slot]
    /\ pc' = [pc EXCEPT ![t] = "l37"]
    /\ UNCHANGED <<clock, budget, heap, slot, grants>>
    /\ UNCHANGED notConcVars

\* lines 37-40
T_TokensToAdd(t) ==
    /\ pc[t] = "l37"
    /\ LET add == TokensToAdd(heap[loc[t].state], ConcQuota, ConcWindow, loc[t].now)
       IN  /\ loc' = [loc EXCEPT ![t].tokens_to_add = add]
           /\ pc' = [pc EXCEPT ![t] = IF add > 0 THEN "l41" ELSE "l46"]
    /\ UNCHANGED <<clock, budget, heap, slot, grants>>
    /\ UNCHANGED notConcVars

\* line 41
T_RefillTokens(t) ==
    /\ pc[t] = "l41"
    /\ heap' = [heap EXCEPT ![loc[t].state].tokens =
                    Min(ConcQuota, @ + loc[t].tokens_to_add)]
    /\ grants' = IF loc[t].state = slot THEN 0 ELSE grants
    /\ pc' = [pc EXCEPT ![t] = "l42"]
    /\ UNCHANGED <<clock, budget, loc, slot>>
    /\ UNCHANGED notConcVars

\* line 42
T_RefillStamp(t) ==
    /\ pc[t] = "l42"
    /\ heap' = [heap EXCEPT ![loc[t].state].last_refill = loc[t].now]
    /\ pc' = [pc EXCEPT ![t] = "l43"]
    /\ UNCHANGED <<clock, budget, loc, slot, grants>>
    /\ UNCHANGED notConcVars

\* line 43
T_RefillCount(t) ==
    /\ pc[t] = "l43"
    /\ heap' = [heap EXCEPT ![loc[t].state].request_count = 0]
    /\ pc' = [pc EXCEPT ![t] = "l46"]
    /\ UNCHANGED <<clock, budget, loc, slot, grants>>
    /\ UNCHANGED notConcVars

\* line 46, and line 51 when the test fails
T_TestTokens(t) ==
    /\ pc[t] = "l46"
    /\ pc' = [pc EXCEPT ![t] = IF CanConsume(heap[loc[t].state]) THEN "l47" ELSE "idle"]
    /\ UNCHANGED <<clock, budget, loc, heap, slot, grants>>
    /\ UNCHANGED notConcVars

\* line 47, the load of  state['tokens'] -= 1
T_LoadTokens(t) ==
    /\ pc[t] = "l47"
    /\ loc' = [loc EXCEPT ![t].operand = heap[loc[t].state].tokens]
    /\ pc' = [pc EXCEPT ![t] = "l47s"]
    /\ UNCHANGED <<clock, budget, heap, slot, grants>>
    /\ UNCHANGED notConcVars

\* line 47, the store of  state['tokens'] -= 1
T_StoreTokens(t) ==
    /\ pc[t] = "l47s"
    /\ heap' = [heap EXCEPT ![loc[t].state].tokens = loc[t].operand - 1]
    /\ pc' = [pc EXCEPT ![t] = "l48"]
    /\ UNCHANGED <<clock, budget, loc, slot, grants>>
    /\ UNCHANGED notConcVars

\* line 48, the load of  state['request_count'] += 1
T_LoadCount(t) ==
    /\ pc[t] = "l48"
    /\ loc' = [loc EXCEPT ![t].operand = heap[loc[t].state].request_count]
    /\ pc' = [pc EXCEPT ![t] = "l48s"]
    /\ UNCHANGED <<clock, budget, heap, slot, grants>>
    /\ UNCHANGED notConcVars

\* line 48, the store of  state['request_count'] += 1
T_StoreCount(t) ==
    /\ pc[t] = "l48s"
    /\ heap' = [heap EXCEPT ![loc[t].state].request_count = loc[t].operand + 1]
    /\ pc' = [pc EXCEPT ![t] = "l49"]
    /\ UNCHANGED <<clock, budget, loc, slot, grants>>
    /\ UNCHANGED notConcVars

\* line 49
T_ReturnTrue(t) ==
    /\ pc[t] = "l49"
    /\ grants' = grants + 1
    /\ pc' = [pc EXCEPT ![t] = "idle"]
    /\ UNCHANGED <<clock, budget, loc, heap, slot>>
    /\ UNCHANGED notConcVars

ConcNext ==
    \/ Tick
    \/ \E t \in Threads :
         \/ T_ReadClock(t)
         \/ T_TestKey(t)
         \/ T_Create(t)
         \/ T_GetState(t)
         \/ T_TokensToAdd(t)
         \/ T_RefillTokens(t)
         \/ T_RefillStamp(t)
         \/ T_RefillCount(t)
         \/ T_TestTokens(t)
         \/ T_LoadTokens(t)
         \/ T_StoreTokens(t)
         \/ T_LoadCount(t)
         \/ T_StoreCount(t)
         \/ T_ReturnTrue(t)

InitConc == SeqInit /\ ConcInit /\ NoUrl /\ NoBash /\ NoBatch /\ NoAst /\ NoLimits

SpecConc == InitConc /\ [][ConcNext]_vars

Init ==
    /\ SeqInit
    /\ ConcInit
    /\ NoUrl
    /\ NoBash
    /\ NoBatch
    /\ NoAst
    /\ NoLimits

Next ==
    \/ \E k \in Keys, m \in Quotas, w \in Windows, t \in Times : can_make_request(k, m, w, t)
    \/ \E k \in Keys : get_rate_limit_status(k)
    \/ \E f \in {"tokens", "request_count", "last_refill"}, v \in {Scribble} : ModifySnapshot(f, v)

Spec == Init /\ [][Next]_vars

InitURL == SeqInit /\ ConcInit /\ UrlInit /\ NoBash /\ NoBatch /\ NoAst /\ NoLimits

SpecURL == InitURL /\ [][UrlNext]_vars

InitBash == SeqInit /\ ConcInit /\ NoUrl /\ BashInit /\ NoBatch /\ NoAst /\ NoLimits

SpecBash == InitBash /\ [][BashNext]_vars

InitBatch == SeqInit /\ ConcInit /\ NoUrl /\ NoBash /\ BatchInit /\ NoAst /\ NoLimits

SpecBatch == InitBatch /\ [][BatchNext]_vars

InitAst == SeqInit /\ ConcInit /\ NoUrl /\ NoBash /\ NoBatch /\ AstInit /\ NoLimits

SpecAst == InitAst /\ [][AstNext]_vars

InitBuckets == BucketsInit /\ ConcInit /\ NoUrl /\ NoBash /\ NoBatch /\ NoAst

SpecBuckets == InitBuckets /\ [][BucketsNext]_vars

(***************************************************************************)
(* Claims about the rate limiter, checked under Spec.                      *)
(***************************************************************************)
\* a step of can_make_request: the only action that leaves last.op = "call"
CallStep == last'.op = "call"

\* C1: for max_requests > 0 and time_window_ms > 0, a run of calls on a fresh
\* key whose clock values all lie less than one window after the first call
\* allows exactly the first max_requests calls and denies every later one
\* (the call just made was allowed iff it is among the first max_requests, and
\* the number allowed so far is min(calls, max_requests)); the first call at
\* least one window after last_refill (the first call's clock, since no
\* refill happened in the run) ends the denial.
C1_FreshKeyQuota ==
    \A k \in Keys :
        /\ hist[k].status = "open" =>
              /\ k \in DOMAIN api_states
              /\ hist[k].ret = (hist[k].calls <= hist[k].quota)
              /\ hist[k].allowed = Min(hist[k].calls, hist[k].quota)
              /\ api_states[k].last_refill = hist[k].first
        /\ hist[k].status = "left" => hist[k].ret

\* a run in which the quota was used up and a later call was denied
C1_Witness ==
    /\ hist["a"].status = "open"
    /\ hist["a"].quota = 2
    /\ hist["a"].calls = 3
    /\ hist["a"].allowed = 2
    /\ ~hist["a"].ret

\* C2: every stored key satisfies 0 <= tokens <= max_requests, max_requests
\* being the quota passed to the most recent call on that key.
C2_TokensWithinQuota ==
    \A k \in DOMAIN api_states :
        /\ 0 <= api_states[k].tokens
        /\ api_states[k].tokens <= hist[k].quota

C5_StatusReadOnly ==
    [][/\ last'.op = "status" =>
            /\ api_states' = api_states
            /\ snapshot'.val =
                  IF snapshot'.key \in DOMAIN api_states
                  THEN api_states[snapshot'.key]
                  ELSE [tokens |-> 0, request_count |-> 0, last_refill |-> 0]
       /\ last'.op = "modify" => api_states' = api_states]_vars

\* the snapshot of a known key was modified
C5_Witness ==
    /\ last.op = "modify"
    /\ snapshot.key \in DOMAIN api_states
    /\ snapshot.val.tokens = Scribble

\* C6: every call made with max_requests <= 0 returns denied, whatever the
\* key's prior state and the timestamps (stated for time_window_ms > 0).
C6_NonPositiveQuotaDenied ==
    (last.op = "call" /\ last.max_requests <= 0 /\ last.time_window_ms > 0) => ~last.ret

\* C7: a call with now < last_refill for the key does no refill (tokens not
\* increased, last_refill and request_count not reset, last_refill not
\* decreased), never makes tokens negative, and is allowed iff tokens > 0
\* before the call (stated for time_window_ms > 0).
C7_ClockBackwardNoRefill ==
    [][(/\ CallStep
        /\ last'.existed
        /\ last'.time_window_ms > 0
        /\ last'.now < api_states[last'.key].last_refill) =>
        LET old == api_states[last'.key]
            new == api_states'[last'.key]
        IN  /\ ~last'.refilled
            /\ last'.mid = old
            /\ new.last_refill = old.last_refill
            /\ new.tokens <= old.tokens
            /\ (old.tokens >= 0 => new.tokens >= 0)
            /\ last'.ret = (old.tokens > 0)]_vars

\* C8: if a call on a key is denied at time t with max_requests > 0 and
\* time_window_ms > 0, the next call on that key with the same quota at any
\* time now >= t + time_window_ms is allowed (stated for a clock that was not
\* behind the key's last_refill at t).
C8_DenialTransient ==
    [][(/\ last.op # "none"
        /\ last.key \in DOMAIN api_states
        /\ api_states[last.key].last_refill <= last.now
        /\ ~last.ret
        /\ last.max_requests > 0
        /\ last.time_window_ms > 0
        /\ CallStep
        /\ last'.key = last.key
        /\ last'.max_requests = last.max_requests
        /\ last'.time_window_ms = last.time_window_ms
        /\ last'.now >= last.now + last.time_window_ms) => last'.ret]_vars

(***************************************************************************)
(* Claims about concurrent callers, checked under SpecConc.                *)
(***************************************************************************)
\* C3: when two or more threads call can_make_request concurrently on the
\* same key, the number of calls that return allowed between two consecutive
\* refills of that key never exceeds max_requests, and tokens never becomes
\* negative.
C3_NoOverConsumption ==
    /\ grants <= ConcQuota
    /\ slot # 0 => heap[slot].tokens >= 0

(***************************************************************************)
(* Claims about validate_url, checked under SpecURL.                       *)
(***************************************************************************)
\* the reserved-range table of the host classifier: 10/8, 172.16/12,
\* 192.168/16, 127/8, 169.254/16, 0/8, and ::1 in any spelling
ReservedLiteral(hostname) ==
    LET ip == ip_address(hostname)
    IN  \/ /\ ip.version = 4
           /\ \/ ip.words[1] \in {10, 127, 0}
              \/ ip.words[1] = 172 /\ ip.words[2] \in 16..31
              \/ ip.words[1] = 192 /\ ip.words[2] = 168
              \/ ip.words[1] = 169 /\ ip.words[2] = 254
        \/ /\ ip.version = 6
           /\ ip.words = <<0, 0, 0, 0, 0, 0, 0, 1>>

LocalhostName(hostname) == ToLower(hostname) = <<"l", "o", "c", "a", "l", "h", "o", "s", "t">>

HttpScheme(str) == UrlScheme(str) \in {<<"h", "t", "t", "p">>, <<"h", "t", "t", "p", "s">>}

\* C9: validate_url returns true only if the url parses, its scheme is http
\* or https, a hostname is present, and the hostname is public: neither a
\* reserved-range IP literal nor a localhost name; otherwise it returns false
\* whatever the allowlist is.
C9_FailClosed ==
    (url_pc = "done" /\ verdict) =>
        /\ ~UrlParseRaises(url)
        /\ HttpScheme(url)
        /\ UrlHostname(url) # <<>>
        /\ ~ReservedLiteral(UrlHostname(url))
        /\ ~LocalhostName(UrlHostname(url))

\* p matches h: h == p, or p is '*.d' and h == d or h ends with '.' + d
PatternAdmits(p, h) ==
    \/ h = p
    \/ /\ Len(p) >= 2
       /\ p[1] = "*"
       /\ p[2] = "."
       /\ LET d == SubSeq(p, 3, Len(p))
          IN  \/ h = d
              \/ /\ Len(h) > Len(d)
                 /\ h[Len(h) - Len(d)] = "."
                 /\ \A i \in 1..Len(d) : h[Len(h) - Len(d) + i] = d[i]

C11_ReservedClassified ==
    (/\ url_pc = "done"
     /\ ~UrlParseRaises(url)
     /\ HttpScheme(url)
     /\ UrlHostname(url) # <<>>) =>
        /\ ReservedLiteral(UrlHostname(url)) => ~verdict
        /\ (is_private_ip(UrlHostname(url)) \/ is_localhost(UrlHostname(url)))
              = (ReservedLiteral(UrlHostname(url)) \/ LocalhostName(UrlHostname(url)))

(***************************************************************************)
(* Claims about validate_bash_command, checked under SpecBash.             *)
(***************************************************************************)
\* the rules whose pattern matches the command
MatchingRules(str) ==
    {i \in 1..Len(DANGEROUS_BASH_PATTERNS) : Search(DANGEROUS_BASH_PATTERNS[i], str)}

\* C12: validate_bash_command returns exactly one violation for each rule
\* whose pattern matches the command case-insensitively, in rule order, no
\* violation for a rule that does not match, and never more than one violation
\* per rule however often its pattern occurs: a command matching k rules
\* yields k violations, 'rm -rf /tmp/x' yields the one violation of the
\* destructive-delete rule, and 'echo hi' yields the empty list.
C12_OneViolationPerMatchingRule ==
    bash_pc = "done" =>
        /\ Len(violations) = Cardinality(MatchingRules(command))
        /\ \A i \in 1..Len(DANGEROUS_BASH_PATTERNS) :
              Cardinality({j \in 1..Len(violations) : violations[j] = Violation(i)})
                 = IF i \in MatchingRules(command) THEN 1 ELSE 0
        /\ \A j \in 1..Len(violations) : \A k \in (j + 1)..Len(violations) :
              violations[j].rule < violations[k].rule
        /\ command = <<"r", "m", " ", "-", "r", "f", " ", "/", "t", "m", "p", "/", "x">>
              => violations = <<Violation(1)>>
        /\ command = <<"e", "c", "h", "o", " ", "h", "i">> => violations = <<>>

\* 'rm -rf /tmp/x; sudo rm -rf /': the first rule matches at two places and
\* the second at one, and two violations are returned
C12_Witness ==
    /\ bash_pc = "done"
    /\ Cardinality(MatchStarts(DANGEROUS_BASH_PATTERNS[1], command)) = 2
    /\ MatchingRules(command) = {1, 2}
    /\ violations = <<Violation(1), Violation(2)>>

(***************************************************************************)
(* Claims about a batch of urls, checked under SpecBatch.                  *)
(***************************************************************************)
\* the positions of a list that satisfy a test
Denied(log) == {i \in 1..Len(log) : ~log[i].ret}

Rejected(urls, allowed) == {i \in 1..Len(urls) : ~validate_url(urls[i], allowed)}

\* how often x occurs in a list
Occurrences(list, x) == Cardinality({j \in 1..Len(list) : list[j] = x})

ImportedModules(node) ==
    IF node.kind = "Import" THEN Range(node.names)
    ELSE IF node.kind = "ImportFrom" THEN {node.module}
    ELSE {}

\* C14: an import statement validate_node was called on, 'import m' or
\* 'from m import x', that imports from a module outside ALLOWED_MODULES is
\* rejected at that node with a violation that names such a module
C14_ImportsChecked ==
    \A i \in 1..Len(visited) :
       LET disallowed == ImportedModules(tree[visited[i]]) \ ALLOWED_MODULES
       IN  disallowed # {} =>
              /\ i = Len(visited)
              /\ raised.exception = "SecurityViolation"
              /\ raised.message = "Disallowed module import"
              /\ raised.name \in disallowed

\* a call to a bare identifier outside ALLOWED_BUILTINS
DisallowedCall(node) ==
    node.kind = "Call" /\ node.func # "" /\ node.func \notin ALLOWED_BUILTINS

\* C15: validation succeeds only if validate_node was called on every node of
\* the tree and no node of it has a disallowed kind, calls a bare identifier
\* outside the allowed builtins, or imports from a module outside the allowed
\* modules
C15_AcceptedMeansClean ==
    code_exit = 0 =>
       /\ Range(visited) = 1..Len(tree)
       /\ \A n \in 1..Len(tree) :
             /\ NodeType(tree[n], ast_version) \in ALLOWED_NODES
             /\ ~DisallowedCall(tree[n])
             /\ ImportedModules(tree[n]) \subseteq ALLOWED_MODULES

\* a node that violates the policy: its kind, the builtin it calls, or a
\* module it imports from
Violating(node, version) ==
    \/ NodeType(node, version) \notin ALLOWED_NODES
    \/ DisallowedCall(node)
    \/ ~(ImportedModules(node) \subseteq ALLOWED_MODULES)

\* whether found is the violation of the node: the first of the kind check,
\* the call check and the import check that the node fails
ViolationOf(found, node, version) ==
    /\ found.exception = "SecurityViolation"
    /\ IF NodeType(node, version) \notin ALLOWED_NODES
         THEN found.message = "Disallowed AST node" /\ found.name = NodeType(node, version)
       ELSE IF DisallowedCall(node)
         THEN found.message = "Disallowed built-in function" /\ found.name = node.func
       ELSE /\ found.message = "Disallowed module import"
            /\ found.name \in ImportedModules(node) \ ALLOWED_MODULES

\* C16: validate_node is called on the nodes in depth-first pre-order, a
\* node before its children; the walk stops at the first violating node and
\* reports that node's violation, the kind check before the call check before
\* the import check; nothing is reported at a node that does not violate
C16_FirstViolationReported ==
    /\ \A i \in 1..Len(visited) : visited[i] = i
    /\ \A i \in 1..Len(visited) :
          Violating(tree[visited[i]], ast_version) =>
             /\ i = Len(visited)
             /\ ViolationOf(raised, tree[visited[i]], ast_version)
    /\ raised.exception = "SecurityViolation" =>
          Violating(tree[visited[Len(visited)]], ast_version)

\* sources built only from permitted constructs: literals, operators, a
\* lambda and a function definition, a comprehension, exception handling,
\* imports of allowed modules and calls to allowed builtins
PermittedSources ==
    { "print(1+2)", "x = 1", "x = True", "not x", "x < y and y < z",
      "len(x) + abs(y)", "print(x, sep=y)", "lambda x: x",
      "def f(a):\n    return a", "[i for i in range(3)]",
      "try:\n    pass\nexcept Exception:\n    pass",
      "import math", "import os.path", "from math import sqrt" }

\* C17: a source built only from permitted constructs parses, every node of
\* its tree has a kind in ALLOWED_NODES, and validation raises nothing and
\* ends with exit code 0
C17_PermittedAccepted ==
    (code \in PermittedSources /\ code_pc # "parse") =>
       /\ raised = NoException
       /\ \A n \in 1..Len(tree) : NodeType(tree[n], ast_version) \in ALLOWED_NODES
       /\ code_pc = "done" => code_exit = 0

(***************************************************************************)
(* The exit codes of the hooks.                                            *)
(***************************************************************************)

\* C18: a hook that has exited ended with 2 exactly when it found a policy
\* violation, with 1 exactly when its input was malformed (a source that does
\* not parse), and with 0 otherwise
C18_ExitCodeConvention ==
    /\ rate_exit # Running =>
          /\ (rate_exit = 2) = (rate_violations # <<>>)
          /\ (rate_exit = 0) = (rate_violations = <<>>)
    /\ ssrf_exit # Running =>
          /\ (ssrf_exit = 2) = (ssrf_violations # <<>>)
          /\ (ssrf_exit = 0) = (ssrf_violations = <<>>)
    /\ code_exit # Running =>
          /\ (code_exit = 2) = (raised.exception = "SecurityViolation")
          /\ (code_exit = 1) = (raised.exception = "SyntaxError")
          /\ (code_exit = 0) = (raised = NoException)

(***************************************************************************)
(* The buckets of keys that are called with their own limits.              *)
(***************************************************************************)

\* C19: for a key always called with the same max_requests > 0 and
\* time_window_ms > 0, tokens + request_count = max_requests in every state;
\* a refill leaves the tokens at max_requests, and until the first refill
\* request_count is the number of calls that were allowed since the key was
\* created
C19_TokensPlusCount ==
    /\ \A k \in DOMAIN api_states :
          /\ api_states[k].tokens + api_states[k].request_count = key_limits[k].max_requests
          /\ hist[k].status = "open" => api_states[k].request_count = hist[k].allowed
    /\ (last.op = "call" /\ last.refilled) =>
          /\ last.mid.tokens = key_limits[last.key].max_requests
          /\ last.mid.request_count = 0

\* a call is allowed right after a refill that followed an allowed call, while
\* the other key is exhausted
C19_Witness ==
    /\ last.op = "call" /\ last.key = "a" /\ last.refilled /\ last.ret
    /\ key_limits["a"].max_requests = MaxQuota
    /\ api_states["a"].tokens = MaxQuota - 1
    /\ api_states["a"].request_count = 1
    /\ "b" \in DOMAIN api_states
    /\ api_states["b"].tokens = 0
    /\ api_states["b"].request_count = key_limits["b"].max_requests

\* the entry a call on the key works on, seen without the other keys
OwnEntry(states, k) == [x \in (DOMAIN states) \cap {k} |-> states[x]]

\* C20: a call on a key creates or changes the entry of that key only: every
\* other key stays absent or keeps its tokens, last_refill and request_count,
\* and what the call returns depends on the entry of its own key alone
C20_KeysIsolated ==
    [][\A k \in BucketKeys :
          /\ last'.key # k =>
                /\ (k \in DOMAIN api_states') = (k \in DOMAIN api_states)
                /\ k \in DOMAIN api_states => api_states'[k] = api_states[k]
          /\ last'.key = k =>
                last'.ret = CanConsume(Refill(StateOf(OwnEntry(api_states, k), k,
                                                      last'.max_requests, last'.now),
                                              last'.max_requests, last'.time_window_ms,
                                              last'.now))]_vars

\* a call on b is allowed while a is exhausted within its window
C20_Witness ==
    /\ last.op = "call" /\ last.key = "b" /\ last.ret /\ ~last.refilled
    /\ "a" \in DOMAIN api_states
    /\ api_states["a"].tokens = 0
    /\ api_states["a"].request_count = key_limits["a"].max_requests
    /\ api_states["a"].last_refill = last.now

=============================================================================
